---- MODULE Spec2Model ----
(***************************************************************************)
(* The grading pipeline of runner.Grade (src/runner/runner.go): compile,   *)
(* execute every case, validate every case, aggregate by group, and the    *)
(* verdict merge worseVerdict it is built on.                              *)
(*                                                                         *)
(* Rationals (math/big.Rat) are pairs <<num, den>> in lowest terms with a  *)
(* positive denominator, which is big.Rat's own normal form.               *)
(***************************************************************************)
EXTENDS Integers, Sequences, FiniteSets, TLC

\* ------------------------------------------------------------------ bounds
\* Largest number of cases in the problem settings.
MaxCases == 2
\* Case weights are the integers 0..MaxWeight.
MaxWeight == 1
\* The validator's scores are the fractions k/ScoreDen, k in 0..ScoreDen.
ScoreDen == 2

\* The wall times a sandbox run can report are 0..MaxWallTime (seconds).
MaxWallTime == 2
\* Largest number of contestant binaries of an interactive problem.
MaxContestants == 2
\* The number of archives a repository can yield.
MaxArchives == 2
\* Largest number of runes of an output compared by the validator.
MaxRunes == 3
\* Largest number of entries of the ZIP file of an output-only submission.
MaxEntries == 2

VARIABLES
    pc,            \* position of the function under way
    settings,      \* settings.Cases: sequence of groups, each a record [Cases: sequence of [Weight]]
    gi,            \* index i of the group loops (1-based)
    cj,            \* index j of the case loops (1-based)
    caseResults,   \* the caseResults slice of the execute loop
    groupResults,  \* groupResults
    runResult,     \* *RunResult
    correct,       \* the validate loop's correct flag of the current group
    score,         \* the validate loop's score accumulator of the current group
    ctx,           \* ctx.Config.Runner: [PreserveFiles]
    run,           \* *common.Run: [Language]
    sandbox,       \* the Sandbox handed to Grade: [Supported], and the verdicts
                   \* and wall times its runs can report: [Verdicts, WallTimes]
    problem,       \* the settings besides Cases: [Interactive, Validator, OverallWallTimeLimit]
    binaries,      \* the binaries slice: records [name, binaryType]
    regularBinaryCount,
    bi,            \* index of the compile loop (1-based)
    runRoot,       \* whether the directory grade/<AttemptID> exists
    err,           \* the error Grade returns
    compiled,      \* the names of the binaries sandbox.Compile was called on, in order
    sandboxRuns,   \* the positions <<i, j>> of the cases sandbox.Run was called on, in order
    runMetas,      \* what sandbox.Run returns for each binary of the case under way
    senders,       \* the goroutines of the binaries of the case: running or sent
    metaChan,      \* the results sent on metaChan and not received yet
    chanClosed,    \* whether metaChan is closed
    collect,       \* the locals of the collection loop
    runMeta,       \* the metadata of the case
    files,         \* the files of an input: archive, tmp, sha1, len
    input,         \* the fields of the graderInput: storedHash, uncompressedSize, committed
    repo,          \* the archive CreateArchiveFromGit makes of the repository
    persist,       \* the locals of Persist: hash, uncompressedSize
    recorded,      \* what each Persist and Verify that succeeded stored in the input
    entered,       \* <<>>, or <<the files and the input when Persist was called>>
    validatorSettings, \* the *common.ValidatorSettings of CalculateScore: [Name, Tolerance]
    contestantOutput, \* the runes of the first reader of CalculateScore
    expectedOutput,   \* the runes of the second reader of CalculateScore
    calculated,    \* <<>>, or <<what CalculateScore returned>>
    caseFiles,     \* the files of the case Grade validates: [contestant, expected, validatorOut, validateMeta]
    source,        \* run.Source: [dataurl, zip, entries]
    outputOnlyFiles, \* the map parseOutputOnlyFile returned: name -> [contents, ole]
    written,       \* the <case>.out files the execute loop wrote in runRoot: name -> contents
    loaded,        \* the validator settings loader.Load returned: [Name, Tolerance]
    rawCaseWeights, \* rawCaseWeights after the walk of the tree: case name -> weight
    built,         \* <<>>, or <<what CreateArchiveFromGit returned>>
    languages,     \* [Parent, Validator]: interactive.ParentLang and *settings.Validator.Lang
    compiledAs,    \* binary name -> the language sandbox.Compile got for it
    ranAs,         \* binary name -> the language sandbox.Run got for it
    requests,      \* the /run/new/ requests for one submission: [pc, status, created]
    submission,    \* the file submissions/<guid[:2]>/<guid[2:]>: [exists, data]
    runs,          \* the requests whose run runs.AddRun put in the queue
    wa, wb, wc,    \* arguments of the calls of worseVerdict under examination
    wres           \* their results

\* The parameters of Grade.
env == <<ctx, run, sandbox, problem>>

\* The state of the run of one case.
caseVars == <<runMetas, senders, metaChan, chanClosed, collect, runMeta>>

\* The state of Grade besides its position.
gradeVars == <<settings, gi, cj, caseResults, groupResults, runResult, correct, score,
               ctx, run, sandbox, problem, binaries, regularBinaryCount, bi, runRoot, err,
               compiled, sandboxRuns, wa, wb, wc, wres>>

\* The state of an input of the grader.
inputVars == <<files, input, repo, persist, recorded, entered>>

\* The state of a call of CalculateScore.
validatorVars == <<validatorSettings, contestantOutput, expectedOutput, calculated>>

\* The state of the functions examined on their own.
\* The state of Grade on an output-only submission.
outputOnlyVars == <<source, outputOnlyFiles, written>>

\* The state of a call of CreateArchiveFromGit.
builderVars == <<loaded, rawCaseWeights, built>>

\* The languages Grade hands to the sandbox.
languageVars == <<languages, compiledAs, ranAs>>

\* The state of the handler of /run/new/.
ingressVars == <<requests, submission, runs>>

restVars == <<validatorVars, caseFiles, outputOnlyVars, builderVars, languageVars, ingressVars>>

vars == <<pc, gradeVars, caseVars, inputVars, restVars>>

\* ------------------------------------------------------------ math/big.Rat
Abs(x) == IF x < 0 THEN -x ELSE x

RECURSIVE Gcd(_, _)
Gcd(a, b) == IF b = 0 THEN a ELSE Gcd(b, a % b)

\* The normal form of n/d (d # 0).
Rat(n, d) ==
    LET g == Gcd(Abs(n), Abs(d))
        s == IF d < 0 THEN -1 ELSE 1
    IN  <<(s * n) \div g, (s * d) \div g>>

RatZero == Rat(0, 1)
RatOne == Rat(1, 1)
RatAdd(x, y) == Rat(x[1] * y[2] + y[1] * x[2], x[2] * y[2])
RatMul(x, y) == Rat(x[1] * y[1], x[2] * y[2])
RatQuo(x, y) == Rat(x[1] * y[2], x[2] * y[1])
\* -1, 0 or 1, as (*big.Rat).Cmp
RatCmp(x, y) ==
    LET l == x[1] * y[2]
        r == y[1] * x[2]
    IN  IF l < r THEN -1 ELSE IF l > r THEN 1 ELSE 0

\* ----------------------------------------------------------- verdict merge
\* common.VerdictList, worst verdict first (worseVerdict takes the smaller
\* index). The list is declared in package common, outside the files at hand.
\* Its order follows the verdict order of the design document, except for OK:
\* Grade seeds both of its merges with "OK" (runner.go:797, :968), merges "PA"
\* into the run verdict and then tests that verdict for "PA" (runner.go:1200,
\* :1226), and reports a run whose verdict is still "OK" as all-correct
\* (runner.go:1228): "OK" is the neutral element of the merge, the best verdict.
VerdictList == <<"JE", "CE", "RTE", "OLE", "MLE", "TLE", "WA", "PA", "AC", "OK">>

Verdicts == {VerdictList[i] : i \in 1..Len(VerdictList)}

\* The first i in 0..limit-1 that satisfies the predicate, -1 if there is none.
\* The predicate is a function from 0..limit-1 to BOOLEAN.
sliceIndex(limit, predicate) ==
    IF \E i \in 0..(limit - 1) : predicate[i]
    THEN CHOOSE i \in 0..(limit - 1) :
            predicate[i] /\ \A k \in 0..(i - 1) : ~predicate[k]
    ELSE -1

\* The predicate of worseVerdict: entry i of the list is verdict v.
IsVerdict(v) == [i \in 0..(Len(VerdictList) - 1) |-> VerdictList[i + 1] = v]

\* min with its comparison turned around.
minAsMax(a, b) == IF a > b THEN a ELSE b

min(a, b) == IF a < b THEN a ELSE b

\* worseVerdict returning its first argument's entry of the list.
worseVerdictFirst(a, b) ==
    LET idxA == sliceIndex(Len(VerdictList), IsVerdict(a))
    IN  IF idxA < 0 THEN "panic" ELSE VerdictList[idxA + 1]

\* worseVerdict returning its second argument's entry of the list.
worseVerdictSecond(a, b) ==
    LET idxB == sliceIndex(Len(VerdictList), IsVerdict(b))
    IN  IF idxB < 0 THEN "panic" ELSE VerdictList[idxB + 1]

\* A verdict outside VerdictList makes the index -1 and the slice access panic.
worseVerdict(a, b) ==
    LET idxA == sliceIndex(Len(VerdictList), IsVerdict(a))
        idxB == sliceIndex(Len(VerdictList), IsVerdict(b))
        m == min(idxA, idxB)
    IN  IF m < 0 THEN "panic" ELSE VerdictList[m + 1]

\* ---------------------------------------------------------------- settings
\* The verdicts a case's execution can end with (RunMetadata.Verdict).
ExecVerdicts == {"OK", "TLE", "MLE", "OLE", "RTE", "JE"}

\* The scores CalculateScore can return: rationals in [0, 1].
Scores == {Rat(k, ScoreDen) : k \in 0..ScoreDen}

\* run.MaxScore
MaxScores == {Rat(100, 1)}

\* The groups of a flat list of case weights ws, a new group starting at each
\* position of starts.
RECURSIVE MkGroups(_, _, _)
MkGroups(ws, starts, k) ==
    IF k > Len(ws) THEN <<>>
    ELSE LET rest == MkGroups(ws, starts, k + 1)
             c == [Weight |-> Rat(ws[k], 1)]
         IN  IF rest = <<>> \/ (k + 1) \in starts
             THEN <<[Cases |-> <<c>>]>> \o rest
             ELSE <<[Cases |-> <<c>> \o rest[1].Cases]>> \o Tail(rest)

\* settings.Cases: at most MaxCases cases in non-empty groups.
SettingsSet ==
    UNION {
        {MkGroups(ws, starts, 1) : ws \in [1..n -> 0..MaxWeight], starts \in SUBSET (2..n)}
        : n \in 0..MaxCases}

RECURSIVE SumWeights(_)
SumWeights(cases) ==
    IF cases = <<>> THEN RatZero
    ELSE RatAdd(cases[1].Weight, SumWeights(Tail(cases)))

\* (*common.GroupSettings).Weight(): the sum of the weights of the group's cases.
GroupWeight(group) == SumWeights(group.Cases)

RECURSIVE SumGroupWeights(_)
SumGroupWeights(groups) ==
    IF groups = <<>> THEN RatZero
    ELSE RatAdd(GroupWeight(groups[1]), SumGroupWeights(Tail(groups)))

\* totalWeightFactor without the inversion of the total weight.
totalWeightFactorNotInverted(cases) ==
    LET total == SumGroupWeights(cases)
    IN  IF RatCmp(total, RatZero) <= 0 THEN Rat(1, 1) ELSE total

\* totalWeightFactor: 1/W, or 1 when the total weight W is not positive.
totalWeightFactor(cases) ==
    LET total == SumGroupWeights(cases)
    IN  IF RatCmp(total, RatZero) <= 0 THEN Rat(1, 1) ELSE RatQuo(Rat(1, 1), total)

\* The RunResult fields WallTime and CompileMeta start with Go's zero values;
\* CompileMeta is a function from binary names to compile verdicts.
NewRunResult(verdict, maxScore) ==
    [Verdict |-> verdict, CompileError |-> FALSE, CompileMeta |-> <<>>,
     Score |-> RatZero, ContestScore |-> RatZero, MaxScore |-> maxScore,
     WallTime |-> 0, Groups |-> <<>>]

\* -------------------------------------------------------- Grade's parameters
\* The wall times a sandbox run can report.
WallTimes == 0..MaxWallTime

\* The verdicts of a case of an output-only ("cat") submission.
OutputOnlyVerdicts == {"OK", "OLE", "RTE"}

\* settings.Interactive: the number of contestant interfaces and whether each
\* of them has the language of the run; nil is the record of no interface.
NoInteractive == [Contestants |-> 0, Supported |-> TRUE]

Interactives ==
    {NoInteractive} \cup [Contestants : 1..MaxContestants, Supported : BOOLEAN]

\* The binary of a non-interactive submission.
MainBinary == [name |-> "Main", binaryType |-> "contestant"]

\* The binaries of an interactive problem: the problemsetter's Main and one
\* contestant binary per interface.
InteractiveBinaries(n) ==
    <<[name |-> "Main", binaryType |-> "problemsetter"]>>
    \o [k \in 1..n |-> [name |-> "contestant" \o ToString(k), binaryType |-> "contestant"]]

ValidatorBinary == [name |-> "validator", binaryType |-> "validator"]

\* The binaries slice before the validator is appended.
RegularBinaries(language, interactive) ==
    IF interactive # NoInteractive THEN InteractiveBinaries(interactive.Contestants)
    ELSE IF language = "cat" THEN <<>>
    ELSE <<MainBinary>>

\* The binaries slice when the compile loop starts.
PlannedBinaries(language, interactive, validator) ==
    RegularBinaries(language, interactive)
    \o (IF validator = "custom" THEN <<ValidatorBinary>> ELSE <<>>)

\* The deferred os.RemoveAll(runRoot) with the directory returned as kept.
AfterReturnKeep(exists) == exists

\* Whether the directory runRoot exists once Grade's deferred
\* os.RemoveAll(runRoot) has run, given whether it exists at the return.
AfterReturn(exists) == IF ctx.PreserveFiles THEN exists ELSE FALSE

\* The wall time test with >= for >.
WallTimeExceededOrReached(wallTime, limit) == wallTime >= limit

\* The test of the execute loop that keeps a case from running.
WallTimeExceeded(wallTime, limit) == wallTime > limit

\* ------------------------------------------- the archive and its sidecars
\* graderBaseInput.Verify and graderInput.Persist (src/grader/v1compat/input.go)
\* on the files <archive>, <archive>.tmp, <archive>.sha1 and <archive>.len.
\* The bytes of an archive are one of the numbers 1..MaxArchives. A sidecar is
\* read as the Go scanners read it: <archive>.sha1 is a sequence of words,
\* <archive>.len a sequence of lines, a line a sequence of characters.

\* A file that does not exist.
NoFile == [exists |-> FALSE, data |-> 0]
NoText == [exists |-> FALSE, data |-> <<>>]

File(data) == [exists |-> TRUE, data |-> data]

Archives == 1..MaxArchives

\* common.Sha1sum: the digest of the bytes of an archive, two bytes standing
\* for the twenty; different archives have different digests.
Sha1sum(bytes) == <<(37 * bytes) % 256, (101 * bytes + 7) % 256>>

\* The total size of the files CreateArchiveFromGit puts in an archive.
UncompressedSize(bytes) == 8 + 2 * bytes

HexDigits == <<"0", "1", "2", "3", "4", "5", "6", "7", "8", "9",
               "a", "b", "c", "d", "e", "f">>

\* fmt.Sprintf("%0x", hash)
RECURSIVE HexString(_)
HexString(hash) ==
    IF hash = <<>> THEN ""
    ELSE HexDigits[(hash[1] \div 16) + 1] \o HexDigits[(hash[1] % 16) + 1]
         \o HexString(Tail(hash))

\* The words of <archive>.sha1 with the name of the archive before the hash.
Sha1TextNameFirst(hash, name) == <<"*" \o name, HexString(hash)>>

\* The words of "%0x *%s\n", the text Persist writes to <archive>.sha1.
Sha1Text(hash, name) == <<HexString(hash), "*" \o name>>

DecimalDigits == <<"0", "1", "2", "3", "4", "5", "6", "7", "8", "9">>

\* The characters of fmt.Sprintf("%d", n).
RECURSIVE FormatInt(_)
FormatInt(n) ==
    IF n < 0 THEN <<"-">> \o FormatInt(-n)
    ELSE IF n < 10 THEN <<DecimalDigits[n + 1]>>
    ELSE FormatInt(n \div 10) \o <<DecimalDigits[(n % 10) + 1]>>

\* The lines of "%d\n", the text Persist writes to <archive>.len.
LenText(n) == <<FormatInt(n)>>

IsDigit(c) == \E d \in 1..10 : DecimalDigits[d] = c
DigitValue(c) == (CHOOSE d \in 1..10 : DecimalDigits[d] = c) - 1

RECURSIVE ParseDigits(_, _)
ParseDigits(chars, acc) ==
    IF chars = <<>> THEN acc
    ELSE ParseDigits(Tail(chars), 10 * acc + DigitValue(chars[1]))

\* strconv.ParseInt(s, 10, 64) on a string of a few characters: an optional
\* sign and at least one digit.
ParseInt(chars) ==
    LET signed == chars # <<>> /\ chars[1] \in {"+", "-"}
        digits == IF signed THEN Tail(chars) ELSE chars
    IN  IF digits = <<>> \/ \E k \in 1..Len(digits) : ~IsDigit(digits[k])
        THEN [err |-> "invalid syntax", value |-> 0]
        ELSE [err |-> "nil",
              value |-> IF signed /\ chars[1] = "-"
                        THEN -ParseDigits(digits, 0) ELSE ParseDigits(digits, 0)]

\* getStoredHash: the first word of <archive>.sha1.
getStoredHash(fs) ==
    IF ~fs.sha1.exists THEN [err |-> "no such file", value |-> ""]
    ELSE IF fs.sha1.data = <<>> THEN [err |-> "unexpected EOF", value |-> ""]
    ELSE [err |-> "nil", value |-> fs.sha1.data[1]]

\* getStoredLength: the first line of <archive>.len, parsed.
getStoredLength(fs) ==
    IF ~fs.len.exists THEN [err |-> "no such file", value |-> 0]
    ELSE IF fs.len.data = <<>> THEN [err |-> "unexpected EOF", value |-> 0]
    ELSE ParseInt(fs.len.data[1])

\* What Verify returns and stores on the files fs.
VerifyResult(fs) ==
    LET storedHash == getStoredHash(fs)
        uncompressedSize == getStoredLength(fs)
        failed(e) == [err |-> e, storedHash |-> "", uncompressedSize |-> 0]
    IN  IF ~fs.archive.exists THEN failed("no such file")
        ELSE IF storedHash.err # "nil" THEN failed(storedHash.err)
        ELSE IF storedHash.value # HexString(Sha1sum(fs.archive.data))
        THEN failed("Hash verification failed")
        ELSE IF uncompressedSize.err # "nil" THEN failed(uncompressedSize.err)
        ELSE [err |-> "nil", storedHash |-> storedHash.value,
              uncompressedSize |-> uncompressedSize.value]

NewInput == [storedHash |-> "", uncompressedSize |-> 0, committed |-> FALSE]

\* No input is being persisted or verified.
InputIdle ==
    /\ files = [archive |-> NoFile, tmp |-> NoFile, sha1 |-> NoText, len |-> NoText]
    /\ input = NewInput
    /\ repo = 1
    /\ persist = [hash |-> <<>>, uncompressedSize |-> 0]
    /\ recorded = <<>>
    /\ entered = <<>>

\* ------------------------------------------------------- the validator
\* CalculateScore (src/runner/validator.go) on two streams of runes. A rune is
\* a string of one character, or the name of its code point.

\* unicode.IsSpace, on the runes of the streams of this model.
UnicodeSpace == {" ", "U+000A", "U+00A0"}

\* The runes isSpace takes for spaces although unicode.IsSpace does not.
JavaSpace == {"U+001C", "U+001D", "U+001E", "U+001F"}

\* isSpace without the separators of Java.
isSpaceUnicodeOnly(r) == r \in UnicodeSpace

isSpace(r) == r \in UnicodeSpace \/ r \in JavaSpace

isNumericRune(r) == r \in {".", "-"} \/ r \in {DecimalDigits[d] : d \in 1..10}

\* Whether the split function of a validator takes the rune r for a separator:
\* scanNumericTokens for token-numeric, scanTokens for the others.
Skipped(name, r) == IF name = "token-numeric" THEN ~isNumericRune(r) ELSE isSpace(r)

\* The first index of data from start on whose rune is a separator, or is not;
\* Len(data) + 1 when there is none.
RECURSIVE IndexFrom(_, _, _, _)
IndexFrom(name, data, start, separator) ==
    IF start > Len(data) THEN start
    ELSE IF Skipped(name, data[start]) = separator THEN start
    ELSE IndexFrom(name, data, start + 1, separator)

\* (*bufio.Scanner).Scan with the split function of the validator on a reader
\* that holds data: whether there is a token, the token (Text() afterwards, ""
\* when there is none), and what is left in the reader.
Scan(name, data) ==
    LET start == IndexFrom(name, data, 1, FALSE)
        end == IndexFrom(name, data, start, TRUE)
    IN  IF start > Len(data)
        THEN [ok |-> FALSE, token |-> <<>>, rest |-> <<>>]
        ELSE [ok |-> TRUE,
              token |-> SubSeq(data, start, end - 1),
              rest |-> SubSeq(data, end + 1, Len(data))]

\* A float64: a number, not a number, or an infinity.
Finite(x) == [class |-> "finite", value |-> x]
NaN == [class |-> "NaN", value |-> RatZero]
Inf(sign) == [class |-> IF sign < 0 THEN "-Inf" ELSE "+Inf", value |-> RatZero]

\* unicode.SimpleFold on the letters of the streams of this model.
Fold(r) ==
    IF r = "A" THEN "a" ELSE IF r = "N" THEN "n" ELSE IF r = "I" THEN "i"
    ELSE IF r = "F" THEN "f" ELSE r

\* strings.EqualFold
EqualFold(a, b) ==
    /\ Len(a) = Len(b)
    /\ \A k \in 1..Len(a) : Fold(a[k]) = Fold(b[k])

RECURSIVE Pow10(_)
Pow10(n) == IF n = 0 THEN 1 ELSE 10 * Pow10(n - 1)

\* strconv.ParseFloat(s, 64) on a string with no exponent, base prefix or
\* underscore: "nan", a signed "inf" or "infinity", or a signed decimal with
\* at least one digit; every decimal of this model is a float64 exactly.
ParseFloat(s) ==
    LET signed == s # <<>> /\ s[1] \in {"+", "-"}
        sign == IF signed /\ s[1] = "-" THEN -1 ELSE 1
        body == IF signed THEN Tail(s) ELSE s
        dots == {k \in 1..Len(body) : body[k] = "."}
        digits == SelectSeq(body, IsDigit)
        fraction == IF dots = {} THEN 0 ELSE Len(body) - (CHOOSE k \in dots : TRUE)
    IN  IF EqualFold(s, <<"n", "a", "n">>) THEN [err |-> "nil", value |-> NaN]
        ELSE IF \/ EqualFold(body, <<"i", "n", "f">>)
                \/ EqualFold(body, <<"i", "n", "f", "i", "n", "i", "t", "y">>)
        THEN [err |-> "nil", value |-> Inf(sign)]
        ELSE IF \/ digits = <<>>
                \/ Cardinality(dots) > 1
                \/ Len(digits) + Cardinality(dots) # Len(body)
        THEN [err |-> "invalid syntax", value |-> Finite(RatZero)]
        ELSE [err |-> "nil",
              value |-> Finite(Rat(sign * ParseDigits(digits, 0), Pow10(fraction)))]

\* math.Min and math.Max
FloatMin(x, y) ==
    IF x.class = "-Inf" \/ y.class = "-Inf" THEN Inf(-1)
    ELSE IF x.class = "NaN" \/ y.class = "NaN" THEN NaN
    ELSE IF x.class = "+Inf" THEN y
    ELSE IF y.class = "+Inf" THEN x
    ELSE IF RatCmp(x.value, y.value) <= 0 THEN x ELSE y

FloatMax(x, y) ==
    IF x.class = "+Inf" \/ y.class = "+Inf" THEN Inf(1)
    ELSE IF x.class = "NaN" \/ y.class = "NaN" THEN NaN
    ELSE IF x.class = "-Inf" THEN y
    ELSE IF y.class = "-Inf" THEN x
    ELSE IF RatCmp(x.value, y.value) >= 0 THEN x ELSE y

RatAbs(x) == <<Abs(x[1]), x[2]>>
RatSub(x, y) == RatAdd(x, <<-y[1], y[2]>>)

token(a, b) == a = b

tokenCaseless(a, b) == EqualFold(a, b)

\* tokenNumeric; the strings it is called on are tokens of scanNumericTokens,
\* which parse to a number or not at all.
tokenNumeric(a, b, tolerance) ==
    LET af == ParseFloat(a)
        bf == ParseFloat(b)
    IN  IF af.err = "nil" /\ bf.err = "nil"
        THEN RatCmp(RatAbs(RatSub(af.value.value, bf.value.value)),
                    RatMul(RatAbs(af.value.value), tolerance)) <= 0
        ELSE af.err # "nil" /\ bf.err # "nil"

\* The switch of the loop of CalculateScore.
TokensMatch(v, expectedText, contestantText) ==
    IF v.Name = "token" THEN token(expectedText, contestantText)
    ELSE IF v.Name = "token-caseless" THEN tokenCaseless(expectedText, contestantText)
    ELSE tokenNumeric(expectedText, contestantText, v.Tolerance)

\* The names the switch in the loop of CalculateScore has a case for.
TokenValidators == {"token", "token-caseless", "token-numeric"}

\* The loop of CalculateScore from an iteration on: the value of correct when
\* the loop ends.
RECURSIVE CompareTokens(_, _, _, _)
CompareTokens(v, contestantData, expectedData, correctSoFar) ==
    IF ~correctSoFar THEN FALSE
    ELSE LET expectedNext == Scan(v.Name, expectedData)
             contestantNext == Scan(v.Name, contestantData)
         IN  IF ~expectedNext.ok THEN expectedNext.ok = contestantNext.ok
             ELSE CompareTokens(v, contestantNext.rest, expectedNext.rest,
                                TokensMatch(v, expectedNext.token, contestantNext.token))

\* CalculateScore(settings, contestantOutput, expectedOutput): the score of a
\* literal or custom validator is read from the first token; otherwise the
\* switch in the loop returns an error at the first expected token if it has
\* no case for the name, and the score is 1 or 0 as the loop ends.
CalculateScore(v, contestantData, expectedData) ==
    IF v.Name \in {"literal", "custom"}
    THEN LET first == Scan(v.Name, contestantData)
             parsed == ParseFloat(first.token)
         IN  IF ~first.ok
             THEN [score |-> Finite(RatZero), err |-> "unexpected EOF"]
             ELSE [score |-> FloatMax(Finite(RatZero),
                                      FloatMin(Finite(RatOne), parsed.value)),
                   err |-> parsed.err]
    ELSE IF v.Name \notin TokenValidators /\ Scan(v.Name, expectedData).ok
    THEN [score |-> Finite(RatZero), err |-> "Unknown validator"]
    ELSE [score |-> IF CompareTokens(v, contestantData, expectedData, TRUE)
                    THEN Finite(RatOne) ELSE Finite(RatZero),
          err |-> "nil"]

\* The sequences of at most n runes of the set S.
RECURSIVE SeqsUpTo(_, _)
SeqsUpTo(S, n) ==
    IF n = 0 THEN {<<>>}
    ELSE LET shorter == SeqsUpTo(S, n - 1)
         IN  shorter \cup {Append(s, r) : s \in shorter, r \in S}

\* CalculateScore is not called.
ValidatorIdle ==
    /\ validatorSettings = [Name |-> "token", Tolerance |-> RatZero]
    /\ contestantOutput = <<>>
    /\ expectedOutput = <<>>
    /\ calculated = <<>>

\* --------------------------------------------- output-only submissions
\* A file name is the sequence of its parts: directories with the "/" after
\* each, the name of a case, and an extension.

\* settings.Limits.OutputLimit
OutputLimit == 2

\* The name of case j of group i.
CaseName(i, j) == ToString(i) \o "." \o ToString(j)

\* fmt.Sprintf("%s.out", name)
OutName(name) == <<name, ".out">>

\* strings.HasSuffix(name, ".out")
HasSuffixOut(name) == name # <<>> /\ name[Len(name)] = ".out"

\* The name of an entry after its last "/".
BaseName(name) ==
    LET slashes == {k \in 1..Len(name) : name[k] = "/"}
    IN  IF slashes = {} THEN name
        ELSE SubSeq(name, (CHOOSE k \in slashes : \A l \in slashes : l <= k) + 1, Len(name))

\* expectedFileNames
ExpectedFileNames(cases) ==
    UNION {{OutName(CaseName(i, j)) : j \in 1..Len(cases[i].Cases)} : i \in 1..Len(cases)}

\* The contents of the k-th entry of a ZIP file: no two entries hold the same.
EntryContents(k) == "entry" \o ToString(k)

\* An entry is too large when its size reaches the output limit.
TooLargeOrEqual(size) == size >= OutputLimit

\* f.FileHeader.UncompressedSize64 > uint64(settings.Limits.OutputLimit)
TooLarge(size) == size > OutputLimit

\* The loop of parseOutputOnlyFile over z.File from entry k on.
RECURSIVE CollectEntries(_, _, _, _)
CollectEntries(entries, k, expectedFileNames, result) ==
    IF k > Len(entries) THEN result
    ELSE LET f == entries[k]
             fileName == BaseName(f.name)
         IN  IF ~HasSuffixOut(f.name)
             THEN CollectEntries(entries, k + 1, expectedFileNames, result)
             ELSE IF fileName \notin expectedFileNames
             THEN CollectEntries(entries, k + 1, expectedFileNames, result)
             ELSE IF TooLarge(f.size)
             THEN CollectEntries(entries, k + 1, expectedFileNames,
                    (fileName :> [contents |-> "", ole |-> TRUE]) @@ result)
             ELSE IF ~f.readable
             THEN CollectEntries(entries, k + 1, expectedFileNames, result)
             ELSE CollectEntries(entries, k + 1, expectedFileNames,
                    (fileName :> [contents |-> EntryContents(k), ole |-> FALSE]) @@ result)

\* parseOutputOnlyFile(ctx, data, settings)
parseOutputOnlyFile(data, cases) ==
    IF ~data.dataurl
    THEN [result |-> (OutName("Main") :> [contents |-> "source", ole |-> FALSE]),
          err |-> "nil"]
    ELSE IF ~data.zip THEN [result |-> <<>>, err |-> "zip: not a valid zip file"]
    ELSE [result |-> CollectEntries(data.entries, 1, ExpectedFileNames(cases), <<>>),
          err |-> "nil"]

\* The verdict of a case of an output-only submission whose output is missing
\* taken for OK.
OutputOnlyVerdictMissingOK(collected, outName) ==
    IF outName \in DOMAIN collected
    THEN IF collected[outName].ole THEN "OLE" ELSE "OK"
    ELSE "OK"

\* The verdict of a case of an output-only submission.
OutputOnlyVerdict(collected, outName) ==
    IF outName \in DOMAIN collected
    THEN IF collected[outName].ole THEN "OLE" ELSE "OK"
    ELSE "RTE"

\* A source that is not a data URL: a program, or the only output.
PlainSource == [dataurl |-> FALSE, zip |-> FALSE, entries |-> <<>>]

\* Grade is not on an output-only submission.
OutputOnlyIdle ==
    /\ source = PlainSource
    /\ outputOnlyFiles = <<>>
    /\ written = <<>>

\* /dev/null
DevNull == File(<<>>)

\* The files of a case that has none.
NoCaseFiles ==
    [contestant |-> NoText, expected |-> NoText, validatorOut |-> NoText,
     validateMeta |-> [Verdict |-> "OK"]]

\* A pointer that is nil.
Unset == <<>>

\* CreateArchiveFromGit is not called.
BuilderIdle ==
    /\ loaded = [Name |-> "token", Tolerance |-> Unset]
    /\ rawCaseWeights = <<>>
    /\ built = <<>>

\* The languages of a problem with neither a harness nor a validator in C++.
DefaultLanguages == [Parent |-> "py", Validator |-> "py"]

\* The sandbox was handed nothing yet.
LanguageIdle ==
    /\ languages = DefaultLanguages
    /\ compiledAs = <<>>
    /\ ranAs = <<>>

\* No request for the submission has come.
IngressIdle ==
    /\ requests = <<>>
    /\ submission = [exists |-> FALSE, data |-> <<>>]
    /\ runs = <<>>

\* Nothing but the function under way has a state.
RestIdle ==
    /\ ValidatorIdle
    /\ caseFiles = NoCaseFiles
    /\ OutputOnlyIdle
    /\ BuilderIdle
    /\ LanguageIdle
    /\ IngressIdle

\* The first statements of the collection: the locals of the loop.
NewCollect ==
    [i |-> 0,
     parentMetadata |-> <<>>,
     chosenMetadata |-> [Verdict |-> "OK", ExitStatus |-> 0, Signal |-> "",
                         Time |-> 0, WallTime |-> 0, Memory |-> 0],
     chosenMetadataEmpty |-> TRUE,
     finalVerdict |-> "OK",
     totalTime |-> 0,
     totalWallTime |-> 0,
     totalMemory |-> 0,
     individualMeta |-> <<>>]

\* No case is under way.
CaseIdle ==
    /\ runMetas = <<>>
    /\ senders = <<>>
    /\ metaChan = <<>>
    /\ chanClosed = FALSE
    /\ collect = NewCollect
    /\ runMeta = NewCollect.chosenMetadata

\* The loops of Grade before Grade is called.
GradeLoopsIdle ==
    /\ settings = <<>>
    /\ runResult = NewRunResult("JE", Rat(1, 1))
    /\ gi = 1
    /\ cj = 1
    /\ caseResults = <<>>
    /\ groupResults = <<>>
    /\ correct = TRUE
    /\ score = RatZero
    /\ wa = "OK" /\ wb = "OK" /\ wc = "OK"
    /\ wres = <<>>

\* ------------------------------------------------------------------- Grade
\* Grade when its compile loop starts, with the files of a non-interactive
\* submission set up, under a sandbox whose runs report no wall time.
Init ==
    /\ pc = "compile"
    /\ settings \in SettingsSet
    /\ \E m \in MaxScores : runResult = NewRunResult("JE", m)
    /\ gi = 1
    /\ cj = 1
    /\ caseResults = <<>>
    /\ groupResults = <<>>
    /\ correct = TRUE
    /\ score = RatZero
    /\ ctx = [PreserveFiles |-> FALSE]
    /\ run = [Language |-> "cpp"]
    /\ sandbox = [Supported |-> TRUE, Verdicts |-> ExecVerdicts, WallTimes |-> {0}]
    /\ problem = [Interactive |-> NoInteractive, Validator |-> "token",
                  OverallWallTimeLimit |-> MaxWallTime]
    /\ binaries = PlannedBinaries("cpp", NoInteractive, "token")
    /\ regularBinaryCount = 1
    /\ bi = 1
    /\ runRoot = TRUE
    /\ err = "nil"
    /\ compiled = <<>>
    /\ sandboxRuns = <<>>
    /\ wa = "OK" /\ wb = "OK" /\ wc = "OK"
    /\ wres = <<>>
    /\ CaseIdle
    /\ InputIdle
    /\ RestIdle

\* sandbox.Supported() is false: Grade returns before it registers the removal
\* of runRoot.
SandboxUnsupported ==
    /\ pc = "entry"
    /\ ~sandbox.Supported
    /\ pc' = "ret_unsupported"
    /\ err' = "Sandbox not supported"
    /\ UNCHANGED <<settings, gi, cj, caseResults, groupResults, runResult, correct, score,
                   binaries, regularBinaryCount, bi, runRoot, compiled, sandboxRuns,
                   wa, wb, wc, wres, env, caseVars, inputVars, restVars>>

\* The sandbox is supported: the removal of runRoot is deferred unless
\* PreserveFiles is set, and the settings are read.
Enter ==
    /\ pc = "entry"
    /\ sandbox.Supported
    /\ pc' = "plan"
    /\ UNCHANGED <<settings, gi, cj, caseResults, groupResults, runResult, correct, score,
                   binaries, regularBinaryCount, bi, runRoot, err, compiled, sandboxRuns,
                   wa, wb, wc, wres, env, caseVars, inputVars, restVars>>

\* An interface of the interactive problem lacks the language of the run.
InteractiveUnsupported ==
    /\ pc = "plan"
    /\ problem.Interactive # NoInteractive
    /\ ~problem.Interactive.Supported
    /\ runResult' = [runResult EXCEPT !.Verdict = "CE", !.CompileError = TRUE]
    /\ runRoot' = AfterReturn(runRoot)
    /\ pc' = "ret_interactive"
    /\ UNCHANGED <<settings, gi, cj, caseResults, groupResults, correct, score,
                   binaries, regularBinaryCount, bi, err, compiled, sandboxRuns,
                   wa, wb, wc, wres, env, caseVars, inputVars, restVars>>

\* The binaries of an interactive problem are planned; a non-interactive
\* submission has none yet.
Plan ==
    /\ pc = "plan"
    /\ problem.Interactive # NoInteractive => problem.Interactive.Supported
    /\ binaries' = IF problem.Interactive # NoInteractive
                   THEN InteractiveBinaries(problem.Interactive.Contestants)
                   ELSE <<>>
    /\ pc' = "setup"
    /\ UNCHANGED <<settings, gi, cj, caseResults, groupResults, runResult, correct, score,
                   regularBinaryCount, bi, runRoot, err, compiled, sandboxRuns,
                   wa, wb, wc, wres, env, caseVars, inputVars, restVars>>

\* One of the file operations of the setup fails (MkdirAll, copyFile,
\* WriteFile, Mkfifo), with runRoot made by then or not: Grade returns the
\* error.
SetupError(made) ==
    /\ pc = "setup"
    /\ err' = "setup failed"
    /\ runRoot' = AfterReturn(made)
    /\ pc' = "ret_setup"
    /\ UNCHANGED <<settings, gi, cj, caseResults, groupResults, runResult, correct, score,
                   binaries, regularBinaryCount, bi, compiled, sandboxRuns,
                   wa, wb, wc, wres, env, caseVars, inputVars, restVars>>

\* The ZIP file of an output-only submission cannot be parsed: Main/bin and the
\* source file are in runRoot by then.
OutputOnlyError ==
    /\ pc = "setup"
    /\ problem.Interactive = NoInteractive
    /\ run.Language = "cat"
    /\ parseOutputOnlyFile(source, settings).err # "nil"
    /\ runResult' = [runResult EXCEPT !.Verdict = "CE", !.CompileError = TRUE]
    /\ runRoot' = AfterReturn(TRUE)
    /\ pc' = "ret_zip"
    /\ UNCHANGED <<settings, gi, cj, caseResults, groupResults, correct, score,
                   binaries, regularBinaryCount, bi, err, compiled, sandboxRuns,
                   wa, wb, wc, wres, env, caseVars, inputVars, restVars>>

\* The source files are set up under runRoot and the ZIP file of an output-only
\* submission is parsed; the validator, if custom, joins the binaries after
\* regularBinaryCount is taken.
\* The binaries that run a case if the validator is not left out.
RunBinariesWithValidator == 1..Len(binaries)

\* The binaries that run a case: all but the validator.
RunBinaries == {k \in 1..Len(binaries) : binaries[k].binaryType # "validator"}

BinaryNamed(name) == CHOOSE k \in 1..Len(binaries) : binaries[k].name = name

\* binary.language, as Grade plans binary b: the parent of an interactive
\* problem has interactive.ParentLang, with cpp upgraded to cpp11; the
\* validator has *settings.Validator.Lang; every other binary has run.Language.
PlannedLanguage(b) ==
    IF b.binaryType = "problemsetter"
    THEN IF languages.Parent = "cpp" THEN "cpp11" ELSE languages.Parent
    ELSE IF b.binaryType = "validator" THEN languages.Validator
    ELSE run.Language

\* The language the compile loop hands to sandbox.Compile for binary b: the
\* validator's cpp is upgraded to cpp11.
CompileLanguage(b) ==
    IF b.binaryType = "validator" /\ PlannedLanguage(b) = "cpp" THEN "cpp11"
    ELSE PlannedLanguage(b)

\* The language sandbox.Run gets for binary b: bin.language in the execute
\* loop, *settings.Validator.Lang in the validate loop.
RunLanguage(b) ==
    IF b.binaryType = "validator" THEN languages.Validator
    ELSE PlannedLanguage(b)

\* ranAs after the goroutines of a case called sandbox.Run.
RunsOfCase ==
    LET names == {binaries[k].name : k \in RunBinaries}
    IN  [name \in names \cup DOMAIN ranAs |->
            IF name \in names
            THEN RunLanguage(binaries[BinaryNamed(name)])
            ELSE ranAs[name]]

\* ranAs after the validate loop's body on a case with verdict OK: the custom
\* validator runs on the output of the case.
RunOfValidator ==
    IF problem.Validator = "custom"
    THEN ("validator" :> RunLanguage(ValidatorBinary)) @@ ranAs
    ELSE ranAs

SetupOK ==
    /\ pc = "setup"
    /\ IF problem.Interactive = NoInteractive /\ run.Language = "cat"
       THEN /\ parseOutputOnlyFile(source, settings).err = "nil"
            /\ outputOnlyFiles' = parseOutputOnlyFile(source, settings).result
       ELSE UNCHANGED outputOnlyFiles
    /\ LET regular == RegularBinaries(run.Language, problem.Interactive)
       IN  /\ regularBinaryCount' = Len(regular)
           /\ binaries' = PlannedBinaries(run.Language, problem.Interactive,
                                          problem.Validator)
    /\ runResult' = IF problem.Interactive = NoInteractive /\ run.Language = "cat"
                    THEN [runResult EXCEPT !.CompileMeta = ("Main" :> "OK") @@ @]
                    ELSE runResult
    /\ runRoot' = TRUE
    /\ pc' = "compile"
    /\ UNCHANGED <<settings, gi, cj, caseResults, groupResults, correct, score,
                   bi, err, compiled, sandboxRuns, wa, wb, wc, wres, env, caseVars, inputVars,
                   validatorVars, caseFiles, source, written, builderVars, ingressVars, languageVars>>

SetupNext ==
    \/ SandboxUnsupported
    \/ Enter
    \/ InteractiveUnsupported
    \/ Plan
    \/ \E made \in BOOLEAN : SetupError(made)
    \/ OutputOnlyError
    \/ SetupOK

\* An iteration of the compile loop: sandbox.Compile returns verdict OK for
\* binary bi.
CompileOK ==
    /\ pc = "compile"
    /\ bi <= Len(binaries)
    /\ compiled' = Append(compiled, binaries[bi].name)
    /\ runResult' = [runResult EXCEPT !.CompileMeta = (binaries[bi].name :> "OK") @@ @]
    /\ bi' = bi + 1
    /\ compiledAs' = (binaries[bi].name :> CompileLanguage(binaries[bi])) @@ compiledAs
    /\ UNCHANGED <<pc, settings, gi, cj, caseResults, groupResults, correct, score,
                   binaries, regularBinaryCount, runRoot, err, sandboxRuns,
                   wa, wb, wc, wres, env, caseVars, inputVars,
                   validatorVars, caseFiles, outputOnlyVars, builderVars, ingressVars, languages, ranAs>>

\* The compile loop is over: the execute phase starts.
CompileEnd ==
    /\ pc = "compile"
    /\ bi > Len(binaries)
    /\ pc' = "execute"
    /\ runResult' = [runResult EXCEPT !.Verdict = "OK"]
    /\ UNCHANGED <<settings, gi, cj, caseResults, groupResults, correct, score,
                   binaries, regularBinaryCount, bi, runRoot, err, compiled, sandboxRuns,
                   wa, wb, wc, wres, env, caseVars, inputVars, restVars>>

\* The ways sandbox.Compile fails: metadata with a verdict other than OK and no
\* error, or an error and no metadata.
CompileFailures == {"verdict", "error"}

\* Binary bi fails to compile: Grade returns the result with verdict CE, and
\* the error of sandbox.Compile.
CompileFail(failure) ==
    /\ pc = "compile"
    /\ bi <= Len(binaries)
    /\ compiled' = Append(compiled, binaries[bi].name)
    /\ runResult' = [runResult EXCEPT
            !.Verdict = "CE",
            !.CompileError = TRUE,
            !.CompileMeta = IF failure = "verdict"
                            THEN (binaries[bi].name :> "RTE") @@ @
                            ELSE @]
    /\ err' = IF failure = "error" THEN "compile failed" ELSE "nil"
    /\ runRoot' = AfterReturn(runRoot)
    /\ pc' = "done_ce"
    /\ compiledAs' = (binaries[bi].name :> CompileLanguage(binaries[bi])) @@ compiledAs
    /\ UNCHANGED <<settings, gi, cj, caseResults, groupResults, correct, score,
                   binaries, regularBinaryCount, bi, sandboxRuns, wa, wb, wc, wres, env, caseVars, inputVars,
                   validatorVars, caseFiles, outputOnlyVars, builderVars, ingressVars, languages, ranAs>>

\* One iteration of the execute loop's body: case cj of group gi ends with
\* verdict v and wall time w. The case gets verdict TLE without a run once the
\* wall time of the run exceeds the limit; the case of an output-only
\* submission is read from the ZIP file; any other case runs in the sandbox.
ExecuteCase(v, w) ==
    /\ pc = "execute"
    /\ gi <= Len(settings)
    /\ cj <= Len(settings[gi].Cases)
    /\ LET caseData == settings[gi].Cases[cj]
           exceeded == WallTimeExceeded(runResult.WallTime, problem.OverallWallTimeLimit)
           outputOnly == run.Language = "cat"
           outName == OutName(CaseName(gi, cj))
       IN  /\ IF exceeded THEN v = "TLE" /\ w = 0
              ELSE IF outputOnly
              THEN /\ v \in OutputOnlyVerdicts
                   /\ v = OutputOnlyVerdict(outputOnlyFiles, outName)
                   /\ w = 0
              ELSE v \in sandbox.Verdicts /\ w \in sandbox.WallTimes
           /\ written' = IF exceeded \/ ~outputOnly THEN written
                         ELSE IF outName \in DOMAIN outputOnlyFiles
                         THEN (outName :> outputOnlyFiles[outName].contents) @@ written
                         ELSE (outName :> "") @@ written
           /\ sandboxRuns' = IF exceeded \/ outputOnly THEN sandboxRuns
                             ELSE Append(sandboxRuns, <<gi, cj>>)
           /\ ranAs' = IF exceeded \/ outputOnly THEN ranAs ELSE RunsOfCase
           /\ runResult' = [runResult EXCEPT !.Verdict = worseVerdict(@, v),
                                             !.WallTime = @ + w]
           /\ caseResults' = Append(caseResults,
                [Verdict |-> v,
                 Meta |-> [Verdict |-> v, WallTime |-> w],
                 Score |-> RatZero,
                 ContestScore |-> RatZero,
                 MaxScore |-> RatMul(runResult.MaxScore,
                                     RatMul(caseData.Weight, totalWeightFactor(settings)))])
    /\ cj' = cj + 1
    /\ UNCHANGED <<pc, settings, gi, groupResults, correct, score,
                   binaries, regularBinaryCount, bi, runRoot, err, compiled,
                   wa, wb, wc, wres, env, caseVars, inputVars,
                   validatorVars, caseFiles, source, outputOnlyFiles, builderVars, ingressVars,
                   languages, compiledAs>>

\* The end of an iteration of the execute loop over the groups.
ExecuteGroupEnd ==
    /\ pc = "execute"
    /\ gi <= Len(settings)
    /\ cj > Len(settings[gi].Cases)
    /\ groupResults' = Append(groupResults,
            [Cases |-> caseResults,
             Score |-> RatZero,
             ContestScore |-> RatZero,
             MaxScore |-> RatMul(runResult.MaxScore,
                                 RatMul(GroupWeight(settings[gi]),
                                        totalWeightFactor(settings)))])
    /\ caseResults' = <<>>
    /\ gi' = gi + 1
    /\ cj' = 1
    /\ UNCHANGED <<pc, settings, runResult, correct, score, binaries, regularBinaryCount, bi, runRoot, err, compiled, sandboxRuns,
                   wa, wb, wc, wres, env, caseVars, inputVars, restVars>>

\* The execute loop is over; the validate loop starts with its first group.
ExecuteEnd ==
    /\ pc = "execute"
    /\ gi > Len(settings)
    /\ pc' = "validate"
    /\ gi' = 1
    /\ cj' = 1
    /\ correct' = TRUE
    /\ score' = RatZero
    /\ UNCHANGED <<settings, caseResults, groupResults, runResult, binaries, regularBinaryCount, bi, runRoot, err, compiled, sandboxRuns,
                   wa, wb, wc, wres, env, caseVars, inputVars, restVars>>

\* ScoredVerdict comparing the score with 1 by > instead of =.
ScoredVerdictNoAC(runScore) ==
    IF RatCmp(runScore, Rat(1, 1)) > 0 THEN "AC"
    ELSE IF RatCmp(runScore, RatZero) = 0 THEN "WA"
    ELSE "PA"

\* The case verdict the validate loop gives a case scored runScore.
ScoredVerdict(runScore) ==
    IF RatCmp(runScore, Rat(1, 1)) = 0 THEN "AC"
    ELSE IF RatCmp(runScore, RatZero) = 0 THEN "WA"
    ELSE "PA"

\* MergeScoredVerdict without the merge of PA.
MergeScoredVerdictNoPA(verdict, runScore) == verdict

\* The run verdict after a case was scored runScore.
MergeScoredVerdict(verdict, runScore) ==
    IF RatCmp(runScore, Rat(1, 1)) = 0 THEN verdict
    ELSE worseVerdict(verdict, "PA")

\* CaseContestScore without the weight of the case.
CaseContestScoreNoWeight(maxScore, weight, caseScore) == RatMul(maxScore, caseScore)

\* caseResults.ContestScore
CaseContestScore(maxScore, weight, caseScore) ==
    RatMul(RatMul(maxScore, weight), caseScore)

\* The validate loop's body for a case with verdict OK whose files open:
\* CalculateScore returns runScore.
ValidateCase(runScore) ==
    /\ pc = "validate"
    /\ gi <= Len(settings)
    /\ cj <= Len(settings[gi].Cases)
    /\ groupResults[gi].Cases[cj].Verdict = "OK"
    /\ LET caseData == settings[gi].Cases[cj]
           old == groupResults[gi].Cases[cj]
           weight == RatMul(caseData.Weight, totalWeightFactor(settings))
           newScore == RatAdd(old.Score, runScore)
       IN  /\ groupResults' = [groupResults EXCEPT ![gi].Cases[cj] =
                [old EXCEPT !.Score = newScore,
                            !.ContestScore =
                                CaseContestScore(runResult.MaxScore, weight, newScore),
                            !.Verdict = ScoredVerdict(runScore)]]
           /\ score' = RatAdd(score, RatMul(runScore, weight))
           /\ runResult' = [runResult EXCEPT !.Verdict = MergeScoredVerdict(@, runScore)]
           /\ correct' = IF RatCmp(runScore, Rat(1, 1)) # 0 /\ RatCmp(runScore, RatZero) = 0
                         THEN FALSE ELSE correct
    /\ cj' = cj + 1
    /\ ranAs' = RunOfValidator
    /\ UNCHANGED <<pc, settings, gi, caseResults, binaries, regularBinaryCount, bi, runRoot, err, compiled, sandboxRuns,
                   wa, wb, wc, wres, env, caseVars, inputVars,
                   validatorVars, caseFiles, outputOnlyVars, builderVars, ingressVars, languages, compiledAs>>

\* The validate loop's body for a case with verdict OK whose contestant or
\* expected output cannot be opened: the iteration is abandoned (continue).
ValidateSkip ==
    /\ pc = "validate"
    /\ gi <= Len(settings)
    /\ cj <= Len(settings[gi].Cases)
    /\ groupResults[gi].Cases[cj].Verdict = "OK"
    /\ cj' = cj + 1
    /\ ranAs' = RunOfValidator
    /\ UNCHANGED <<pc, settings, gi, caseResults, groupResults, runResult, correct, score,
                   binaries, regularBinaryCount, bi, runRoot, err, compiled, sandboxRuns,
                   wa, wb, wc, wres, env, caseVars, inputVars,
                   validatorVars, caseFiles, outputOnlyVars, builderVars, ingressVars, languages, compiledAs>>

\* The validate loop's body for a case whose verdict is not OK.
ValidateNotOK ==
    /\ pc = "validate"
    /\ gi <= Len(settings)
    /\ cj <= Len(settings[gi].Cases)
    /\ groupResults[gi].Cases[cj].Verdict # "OK"
    /\ correct' = FALSE
    /\ cj' = cj + 1
    /\ UNCHANGED <<pc, settings, gi, caseResults, groupResults, runResult, score,
                   binaries, regularBinaryCount, bi, runRoot, err, compiled, sandboxRuns,
                   wa, wb, wc, wres, env, caseVars, inputVars, restVars>>

\* The end of an iteration of the validate loop over the groups.
ValidateGroupEnd ==
    /\ pc = "validate"
    /\ gi <= Len(settings)
    /\ cj > Len(settings[gi].Cases)
    /\ IF correct
       THEN /\ runResult' = [runResult EXCEPT !.Score = RatAdd(@, score)]
            /\ groupResults' = [groupResults EXCEPT
                    ![gi].Score = RatAdd(@, score),
                    ![gi].ContestScore = RatMul(runResult.MaxScore, score)]
       ELSE UNCHANGED <<runResult, groupResults>>
    /\ gi' = gi + 1
    /\ cj' = 1
    /\ correct' = TRUE
    /\ score' = RatZero
    /\ UNCHANGED <<pc, settings, caseResults, binaries, regularBinaryCount, bi, runRoot, err, compiled, sandboxRuns,
                   wa, wb, wc, wres, env, caseVars, inputVars, restVars>>

\* FinalResult without the report of an all-correct run as AC with score 1.
FinalResultKeepOK(r, groups) ==
    LET r1 == [r EXCEPT !.Groups = groups]
        r2 == IF r1.Verdict = "PA" /\ RatCmp(r1.Score, RatZero) = 0
              THEN [r1 EXCEPT !.Verdict = "WA"]
              ELSE r1
    IN  [r2 EXCEPT !.ContestScore = RatMul(r2.MaxScore, r2.Score)]

\* FinalResult without the report of PA with score 0 as WA.
FinalResultNoWA(r, groups) ==
    LET r1 == [r EXCEPT !.Groups = groups]
        r2 == IF r1.Verdict = "OK"
              THEN [r1 EXCEPT !.Verdict = "AC", !.Score = Rat(1, 1)]
              ELSE r1
    IN  [r2 EXCEPT !.ContestScore = RatMul(r2.MaxScore, r2.Score)]

\* The final verdict and score of the run, after the validate loop.
FinalResult(r, groups) ==
    LET r1 == [r EXCEPT !.Groups = groups]
        r2 == IF r1.Verdict = "PA" /\ RatCmp(r1.Score, RatZero) = 0
              THEN [r1 EXCEPT !.Verdict = "WA"]
              ELSE IF r1.Verdict = "OK"
              THEN [r1 EXCEPT !.Verdict = "AC", !.Score = Rat(1, 1)]
              ELSE r1
    IN  [r2 EXCEPT !.ContestScore = RatMul(r2.MaxScore, r2.Score)]

\* The outcomes of uploadFiles.
UploadErrors == {"nil", "upload failed"}

\* The validate loop is over: the final verdict and score are set, the files
\* are uploaded with outcome e, and Grade returns.
Finalize(e) ==
    /\ pc = "validate"
    /\ gi > Len(settings)
    /\ runResult' = FinalResult(runResult, groupResults)
    /\ err' = e
    /\ runRoot' = AfterReturn(runRoot)
    /\ pc' = "done"
    /\ UNCHANGED <<settings, gi, cj, caseResults, groupResults, correct, score,
                   binaries, regularBinaryCount, bi, compiled, sandboxRuns,
                   wa, wb, wc, wres, env, caseVars, inputVars, restVars>>

GradeNext ==
    \/ CompileOK
    \/ CompileEnd
    \/ \E failure \in CompileFailures : CompileFail(failure)
    \/ \E v \in ExecVerdicts, w \in WallTimes : ExecuteCase(v, w)
    \/ ExecuteGroupEnd
    \/ ExecuteEnd
    \/ \E s \in Scores : ValidateCase(s)
    \/ ValidateSkip
    \/ ValidateNotOK
    \/ ValidateGroupEnd
    \/ \E e \in UploadErrors : Finalize(e)

\* ------------------------------------------- worseVerdict on its own
\* Calls of worseVerdict on arbitrary verdicts of the list.
\* Grade is not called: its parameters and the state of its setup and compile
\* loop when no run is under way.
GradeParametersIdle ==
    /\ ctx = [PreserveFiles |-> FALSE]
    /\ run = [Language |-> "cpp"]
    /\ sandbox = [Supported |-> TRUE, Verdicts |-> {}, WallTimes |-> {}]
    /\ problem = [Interactive |-> NoInteractive, Validator |-> "token", OverallWallTimeLimit |-> 0]
    /\ binaries = <<>>
    /\ regularBinaryCount = 0
    /\ bi = 1
    /\ runRoot = FALSE
    /\ err = "nil"
    /\ compiled = <<>>
    /\ sandboxRuns = <<>>

InitWorse ==
    /\ pc = "worse"
    /\ wa \in Verdicts
    /\ wb \in Verdicts
    /\ wc \in Verdicts
    /\ wres = <<>>
    /\ settings = <<>>
    /\ runResult = NewRunResult("JE", Rat(1, 1))
    /\ gi = 1
    /\ cj = 1
    /\ caseResults = <<>>
    /\ groupResults = <<>>
    /\ correct = TRUE
    /\ score = RatZero
    /\ GradeParametersIdle
    /\ CaseIdle
    /\ InputIdle
    /\ RestIdle

ApplyWorse ==
    /\ pc = "worse"
    /\ pc' = "worse_done"
    /\ wres' = [ab |-> worseVerdict(wa, wb),
                ba |-> worseVerdict(wb, wa),
                aa |-> worseVerdict(wa, wa),
                ac |-> worseVerdict(wa, wc),
                bc |-> worseVerdict(wb, wc),
                a_bc |-> worseVerdict(wa, worseVerdict(wb, wc)),
                ab_c |-> worseVerdict(worseVerdict(wa, wb), wc),
                je_a |-> worseVerdict("JE", wa),
                a_je |-> worseVerdict(wa, "JE")]
    /\ UNCHANGED <<settings, gi, cj, caseResults, groupResults, runResult, correct, score,
                   binaries, regularBinaryCount, bi, runRoot, err, compiled, sandboxRuns,
                   wa, wb, wc, env, caseVars, inputVars, restVars>>

\* Verdicts a sandbox can report that VerdictList does not hold: no verdict,
\* and a verdict of another list.
UnlistedVerdicts == {"", "VE"}

\* Calls of worseVerdict on the verdicts a sandbox can report.
InitWorseAny ==
    /\ pc = "worse"
    /\ wa \in Verdicts \cup UnlistedVerdicts
    /\ wb \in Verdicts \cup UnlistedVerdicts
    /\ wc \in Verdicts
    /\ wres = <<>>
    /\ settings = <<>>
    /\ runResult = NewRunResult("JE", Rat(1, 1))
    /\ gi = 1
    /\ cj = 1
    /\ caseResults = <<>>
    /\ groupResults = <<>>
    /\ correct = TRUE
    /\ score = RatZero
    /\ GradeParametersIdle
    /\ CaseIdle
    /\ InputIdle
    /\ RestIdle

SpecWorse == InitWorseAny /\ [][ApplyWorse]_vars

Next == GradeNext \/ ApplyWorse

Spec == (Init \/ InitWorse) /\ [][Next]_vars

\* ------------------------------------------------------- reading a result
\* The positions <<i, j>> of the cases of groupResults.
CasePos ==
    UNION {{<<i, j>> : j \in 1..Len(groupResults[i].Cases)} : i \in 1..Len(groupResults)}
CaseAt(p) == groupResults[p[1]].Cases[p[2]]
WeightAt(p) == settings[p[1]].Cases[p[2]].Weight

\* The validate loop has gone past the case at p.
Passed(p) ==
    \/ pc = "done"
    \/ pc = "validate" /\ (p[1] < gi \/ (p[1] = gi /\ p[2] < cj))

\* The validate loop has closed group i.
Closed(i) == pc = "done" \/ (pc = "validate" /\ i < gi)

RECURSIVE SumField(_, _)
SumField(rs, f) ==
    IF rs = <<>> THEN RatZero ELSE RatAdd(rs[1][f], SumField(Tail(rs), f))

RECURSIVE AllCases(_)
AllCases(groups) ==
    IF groups = <<>> THEN <<>> ELSE groups[1].Cases \o AllCases(Tail(groups))

\* The total weight W of the settings.
TotalWeight == SumWeights(AllCases(settings))

RatLe(x, y) == RatCmp(x, y) <= 0
RatLt(x, y) == RatCmp(x, y) < 0

\* The position of verdict v in a best-to-worst order.
Pos(order, v) == CHOOSE k \in 1..Len(order) : order[k] = v
Greater(order, a, b) == IF Pos(order, a) >= Pos(order, b) THEN a ELSE b
Greatest(order, S) == CHOOSE v \in S : \A u \in S : Pos(order, u) <= Pos(order, v)

\* The verdict order as the design document gives it, best first.
DocumentOrder == <<"AC", "PA", "WA", "OK", "TLE", "MLE", "OLE", "RTE", "CE", "JE">>
\* The verdict order with OK as the best verdict.
MergeOrder == <<"OK", "AC", "PA", "WA", "TLE", "MLE", "OLE", "RTE", "CE", "JE">>

\* The verdicts Grade has merged into the run verdict so far.
MergedVerdicts ==
    {"OK"}
    \cup {caseResults[j].Meta.Verdict : j \in 1..Len(caseResults)}
    \cup {CaseAt(p).Meta.Verdict : p \in CasePos}
    \cup {"PA" : p \in {q \in CasePos : CaseAt(q).Verdict \in {"WA", "PA"}}}

InGrade == pc \in {"execute", "validate", "done"}

\* -------------------------------------------------- Grade from its entry
\* The settings of at most n cases, in any groups, each of weight 1.
UnitSettings(n) ==
    {s \in SettingsSet :
        /\ Len(AllCases(s)) <= n
        /\ \A k \in 1..Len(AllCases(s)) : AllCases(s)[k].Weight = RatOne}

\* The sources of the output-only submissions here: the only output, a data
\* URL that holds no ZIP file, and a ZIP file with the output of the first case
\* or with nothing.
EntrySources ==
    {PlainSource,
     [dataurl |-> TRUE, zip |-> FALSE, entries |-> <<>>],
     [dataurl |-> TRUE, zip |-> TRUE, entries |-> <<>>],
     [dataurl |-> TRUE, zip |-> TRUE,
      entries |-> <<[name |-> OutName(CaseName(1, 1)), size |-> OutputLimit,
                     readable |-> TRUE]>>]}

\* Grade at its entry, for every value of PreserveFiles, sandbox support,
\* language and kind of problem; runRoot is named after the attempt and does
\* not exist yet.
InitEntry ==
    /\ pc = "entry"
    /\ settings \in UnitSettings(1)
    /\ \E m \in MaxScores : runResult = NewRunResult("JE", m)
    /\ gi = 1
    /\ cj = 1
    /\ caseResults = <<>>
    /\ groupResults = <<>>
    /\ correct = TRUE
    /\ score = RatZero
    /\ ctx \in [PreserveFiles : BOOLEAN]
    /\ run \in [Language : {"cat", "cpp"}]
    /\ sandbox \in [Supported : BOOLEAN, Verdicts : {{"OK"}}, WallTimes : {{0}}]
    /\ problem \in [Interactive : Interactives, Validator : {"token", "custom"},
                     OverallWallTimeLimit : {MaxWallTime}]
    /\ run.Language = "cat" => problem.Interactive = NoInteractive
    /\ binaries = <<>>
    /\ regularBinaryCount = 0
    /\ bi = 1
    /\ runRoot = FALSE
    /\ err = "nil"
    /\ compiled = <<>>
    /\ sandboxRuns = <<>>
    /\ wa = "OK" /\ wb = "OK" /\ wc = "OK"
    /\ wres = <<>>
    /\ source \in IF run.Language = "cat" THEN EntrySources ELSE {PlainSource}
    /\ outputOnlyFiles = <<>>
    /\ written = <<>>
    /\ ValidatorIdle
    /\ caseFiles = NoCaseFiles
    /\ CaseIdle
    /\ InputIdle
    /\ BuilderIdle
    /\ LanguageIdle
    /\ IngressIdle

EntryNext == SetupNext \/ GradeNext

SpecEntry == InitEntry /\ [][EntryNext]_vars

\* ------------------------------------ Grade under the overall wall time limit
\* Grade when its compile loop starts, under a sandbox whose runs report wall
\* times, for every limit.
InitWallTime ==
    /\ pc = "compile"
    /\ settings \in UnitSettings(MaxCases)
    /\ \E m \in MaxScores : runResult = NewRunResult("JE", m)
    /\ gi = 1
    /\ cj = 1
    /\ caseResults = <<>>
    /\ groupResults = <<>>
    /\ correct = TRUE
    /\ score = RatZero
    /\ ctx = [PreserveFiles |-> FALSE]
    /\ run = [Language |-> "cpp"]
    /\ sandbox = [Supported |-> TRUE, Verdicts |-> {"OK", "TLE"}, WallTimes |-> WallTimes]
    /\ problem \in [Interactive : {NoInteractive}, Validator : {"token"},
                     OverallWallTimeLimit : WallTimes]
    /\ binaries = PlannedBinaries("cpp", NoInteractive, "token")
    /\ regularBinaryCount = 1
    /\ bi = 1
    /\ runRoot = TRUE
    /\ err = "nil"
    /\ compiled = <<>>
    /\ sandboxRuns = <<>>
    /\ wa = "OK" /\ wb = "OK" /\ wc = "OK"
    /\ wres = <<>>
    /\ CaseIdle
    /\ InputIdle
    /\ RestIdle

SpecWallTime == InitWallTime /\ [][GradeNext]_vars

\* ------------------------------------------------- the run of one case
\* The part of the execute loop's body that runs the binaries of one case in
\* the sandbox, one goroutine each, and collects their results from metaChan.

\* math.Max
Max(a, b) == IF a > b THEN a ELSE b

\* base.MaxBytes
MaxBytes(a, b) == IF a > b THEN a ELSE b

\* The verdicts of the run of a contestant binary.
ContestantVerdicts == {"OK", "RTE", "TLE"}

\* The RunMetadata sandbox.Run can return for a contestant binary that is the
\* k-th binary of the plan: it uses k units of CPU time, of wall time and of
\* memory.
ContestantMetas(k) ==
    [Verdict : ContestantVerdicts, ExitStatus : {0}, Signal : {""},
     Time : {k}, WallTime : {k}, Memory : {k}]

\* The RunMetadata sandbox.Run can return for the problemsetter's binary, which
\* uses 7 units of CPU time, of wall time and of memory; the signal "" stands
\* for the nil pointer.
ParentMetas ==
    [Verdict : {"OK", "OLE", "TLE", "RTE"}, ExitStatus : {0, 239, 240, 241, 242},
     Signal : {"", "SIGPIPE", "SIGSEGV"},
     Time : {7}, WallTime : {7}, Memory : {7}]

\* What sandbox.Run can return for each binary that runs a case.
RunMetasSet(bins) ==
    {f \in [{bins[k].name : k \in 1..Len(bins)} ->
                ParentMetas \cup UNION {ContestantMetas(k) : k \in 1..Len(bins)}] :
        \A k \in 1..Len(bins) :
            f[bins[k].name] \in
                IF bins[k].binaryType = "problemsetter" THEN ParentMetas
                ELSE ContestantMetas(k)}

\* metaChan with room for one result less.
ChanCapacityOneLess == regularBinaryCount - 1

\* The capacity metaChan is made with.
ChanCapacity == regularBinaryCount

\* The case of an interactive or plain problem when the goroutines of its
\* binaries have been started and the collection loop is about to start.
InitCase ==
    /\ pc = "collect"
    /\ \E interactive \in {i \in Interactives : i.Supported},
          validator \in {"token", "custom"} :
            /\ problem = [Interactive |-> interactive, Validator |-> validator,
                          OverallWallTimeLimit |-> MaxWallTime]
            /\ binaries = PlannedBinaries("cpp", interactive, validator)
            /\ regularBinaryCount = Len(RegularBinaries("cpp", interactive))
            /\ runMetas \in RunMetasSet(RegularBinaries("cpp", interactive))
    /\ senders = [name \in {binaries[k].name : k \in RunBinaries} |-> "running"]
    /\ metaChan = <<>>
    /\ chanClosed = FALSE
    /\ collect = NewCollect
    /\ runMeta = NewCollect.chosenMetadata
    /\ ctx = [PreserveFiles |-> FALSE]
    /\ run = [Language |-> "cpp"]
    /\ sandbox = [Supported |-> TRUE, Verdicts |-> ExecVerdicts, WallTimes |-> WallTimes]
    /\ bi = 1
    /\ runRoot = TRUE
    /\ err = "nil"
    /\ compiled = <<>>
    /\ sandboxRuns = <<>>
    /\ GradeLoopsIdle
    /\ InputIdle
    /\ RestIdle

\* The goroutine of a binary: sandbox.Run returns and the goroutine sends the
\* result on metaChan, which takes it if it has room; a send on a closed
\* channel panics.
Send(name) ==
    /\ pc \in {"collect", "reconcile", "case_done"}
    /\ name \in DOMAIN senders
    /\ senders[name] = "running"
    /\ IF chanClosed
       THEN /\ pc' = "panic"
            /\ UNCHANGED <<senders, metaChan>>
       ELSE /\ Len(metaChan) < ChanCapacity
            /\ metaChan' = Append(metaChan,
                    [name |-> name,
                     runMeta |-> runMetas[name],
                     binaryType |-> binaries[BinaryNamed(name)].binaryType])
            /\ senders' = [senders EXCEPT ![name] = "sent"]
            /\ UNCHANGED pc
    /\ UNCHANGED <<runMetas, chanClosed, collect, runMeta, gradeVars, inputVars, restVars>>

\* The verdict of the collection with the last verdict received in place of
\* the worse one.
CollectVerdictLast(finalVerdict, verdict) == verdict

\* The verdict of the collection after a contestant's verdict.
CollectVerdict(finalVerdict, verdict) == worseVerdict(finalVerdict, verdict)

\* totalMemory after a contestant's memory.
CollectMemory(totalMemory, memory) == totalMemory + MaxBytes(totalMemory, memory)

\* The locals of the collection loop after its body has run on a result.
Collected(c, intermediateResult) ==
    LET meta == intermediateResult.runMeta
        c1 == [c EXCEPT
                !.i = @ + 1,
                !.individualMeta = IF regularBinaryCount # 1
                                   THEN (intermediateResult.name :> meta) @@ @
                                   ELSE @]
    IN  IF intermediateResult.binaryType = "problemsetter"
        THEN [c1 EXCEPT !.parentMetadata = <<meta>>]
        ELSE [c1 EXCEPT
                !.chosenMetadata = IF meta.Verdict # "OK" /\ c.chosenMetadataEmpty
                                   THEN meta ELSE @,
                !.chosenMetadataEmpty = IF meta.Verdict # "OK" THEN FALSE ELSE @,
                !.finalVerdict = CollectVerdict(@, meta.Verdict),
                !.totalTime = @ + meta.Time,
                !.totalWallTime = Max(@, meta.WallTime),
                !.totalMemory = CollectMemory(@, meta.Memory)]

\* An iteration of the collection loop: a result is received from metaChan.
Receive ==
    /\ pc = "collect"
    /\ collect.i < regularBinaryCount
    /\ metaChan # <<>>
    /\ collect' = Collected(collect, Head(metaChan))
    /\ metaChan' = Tail(metaChan)
    /\ UNCHANGED <<pc, runMetas, senders, chanClosed, runMeta, gradeVars, inputVars, restVars>>

\* The collection loop is over: metaChan is closed and the verdict, times and
\* memory of the collection are put in the chosen metadata.
CloseChan ==
    /\ pc = "collect"
    /\ collect.i >= regularBinaryCount
    /\ chanClosed' = TRUE
    /\ collect' = [collect EXCEPT
            !.chosenMetadata = [@ EXCEPT !.Verdict = collect.finalVerdict,
                                         !.Time = collect.totalTime,
                                         !.WallTime = collect.totalWallTime,
                                         !.Memory = collect.totalMemory]]
    /\ pc' = "reconcile"
    /\ UNCHANGED <<runMetas, senders, metaChan, runMeta, gradeVars, inputVars, restVars>>

\* The verdict of a case whatever the problemsetter's binary did.
ReconciledVerdictNoParent(parentMetadata, verdict) == verdict

\* The verdict of a case whose contestants have the verdict given, after the
\* problemsetter's metadata has been looked at (<<>> is the nil pointer).
ReconciledVerdict(parentMetadata, verdict) ==
    IF parentMetadata # <<>> /\ parentMetadata[1].Verdict # "OK" /\ verdict = "OK"
    THEN LET parent == parentMetadata[1]
         IN  IF parent.Verdict = "OLE" THEN "OLE"
             ELSE IF parent.Verdict = "TLE" THEN "TLE"
             ELSE IF parent.ExitStatus = 239 THEN "RTE"
             ELSE IF parent.ExitStatus = 240 THEN "RTE"
             ELSE IF parent.ExitStatus = 241 THEN "RTE"
             ELSE IF parent.ExitStatus = 242 THEN "RTE"
             ELSE IF parent.Signal # "" /\ parent.Signal = "SIGPIPE" THEN "RTE"
             ELSE "JE"
    ELSE verdict

\* The chosen metadata becomes the metadata of the case, with the verdict
\* reconciled with the problemsetter's.
Reconcile ==
    /\ pc = "reconcile"
    /\ runMeta' = [collect.chosenMetadata EXCEPT
            !.Verdict = ReconciledVerdict(collect.parentMetadata, @)]
    /\ pc' = "case_done"
    /\ UNCHANGED <<runMetas, senders, metaChan, chanClosed, collect, gradeVars, inputVars, restVars>>

CaseNext ==
    \/ \E name \in DOMAIN senders : Send(name)
    \/ Receive
    \/ CloseChan
    \/ Reconcile

SpecCase == InitCase /\ [][CaseNext]_vars

\* The case with what the binaries report left out: the problemsetter ends with
\* verdict OK and every contestant too.
InitChannel ==
    /\ InitCase
    /\ \A name \in DOMAIN runMetas : runMetas[name].Verdict = "OK"

\* The Go scheduler runs the collecting goroutine whenever it can take a step;
\* nothing makes a run of the sandbox return.
SpecChannel ==
    /\ InitChannel
    /\ [][CaseNext]_vars
    /\ WF_vars(Receive)
    /\ WF_vars(CloseChan)
    /\ WF_vars(Reconcile)

\* The texts <archive>.sha1 can hold when the grader starts.
Sha1Files ==
    {NoText, File(<<>>)} \cup {File(Sha1Text(Sha1sum(b), "archive")) : b \in Archives}

\* The texts <archive>.len can hold when the grader starts.
LenFiles ==
    {NoText, File(<<>>), File(<<<<"x">>>>)}
    \cup {File(LenText(UncompressedSize(b))) : b \in Archives}

\* An input of the grader whose files are in any state: left by an earlier
\* process, damaged, or missing. The repository holds the archive repo.
InitInput ==
    /\ pc = "idle"
    /\ files \in [archive : {NoFile} \cup {File(b) : b \in Archives},
                  tmp : {NoFile, File(1)},
                  sha1 : Sha1Files,
                  len : LenFiles]
    /\ input = NewInput
    /\ repo \in Archives
    /\ persist = [hash |-> <<>>, uncompressedSize |-> 0]
    /\ recorded = <<>>
    /\ entered = <<>>
    /\ GradeLoopsIdle
    /\ GradeParametersIdle
    /\ CaseIdle
    /\ RestIdle

Verify ==
    /\ pc \in {"idle", "persisted", "persist_failed"}
    /\ LET result == VerifyResult(files)
       IN  IF result.err = "nil"
           THEN /\ input' = [storedHash |-> result.storedHash,
                             uncompressedSize |-> result.uncompressedSize,
                             committed |-> TRUE]
                /\ recorded' = Append(recorded,
                        [op |-> "Verify", storedHash |-> result.storedHash,
                         uncompressedSize |-> result.uncompressedSize])
                /\ pc' = "verified"
           ELSE /\ pc' = "verify_failed"
                /\ UNCHANGED <<input, recorded>>
    /\ UNCHANGED <<files, repo, persist, entered, gradeVars, caseVars, restVars>>

\* Persist up to CreateArchiveFromGit: MkdirAll fails, or the removal of
\* <archive>.tmp is deferred and the archive is written to it, or not.
PersistCreateArchive(outcome) ==
    /\ pc \in {"idle", "verify_failed"}
    /\ outcome \in {"ok", "mkdir", "archive"}
    /\ files' = [files EXCEPT !.tmp = IF outcome = "ok" THEN File(repo)
                                      ELSE IF outcome = "mkdir" THEN @
                                      ELSE NoFile]
    /\ persist' = [hash |-> <<>>, uncompressedSize |-> UncompressedSize(repo)]
    /\ entered' = <<[files |-> files, input |-> input]>>
    /\ pc' = IF outcome = "ok" THEN "persist_hash" ELSE "persist_failed"
    /\ UNCHANGED <<input, repo, recorded, gradeVars, caseVars, restVars>>

\* os.Stat and common.Sha1sum of <archive>.tmp.
PersistHash(ok) ==
    /\ pc = "persist_hash"
    /\ IF ok
       THEN /\ persist' = [persist EXCEPT !.hash = Sha1sum(files.tmp.data)]
            /\ pc' = "persist_sha1"
            /\ UNCHANGED files
       ELSE /\ files' = [files EXCEPT !.tmp = NoFile]
            /\ pc' = "persist_failed"
            /\ UNCHANGED persist
    /\ UNCHANGED <<input, repo, recorded, entered, gradeVars, caseVars, restVars>>

\* <archive>.sha1 is created and written: os.Create fails, or it empties the
\* file and fmt.Fprintf fails, or the text is written.
PersistSha1(outcome) ==
    /\ pc = "persist_sha1"
    /\ outcome \in {"ok", "create", "write"}
    /\ files' = [files EXCEPT
            !.sha1 = IF outcome = "ok" THEN File(Sha1Text(persist.hash, "archive"))
                     ELSE IF outcome = "write" THEN File(<<>>)
                     ELSE @,
            !.tmp = IF outcome = "ok" THEN @ ELSE NoFile]
    /\ pc' = IF outcome = "ok" THEN "persist_len" ELSE "persist_failed"
    /\ UNCHANGED <<input, repo, persist, recorded, entered, gradeVars, caseVars, restVars>>

\* <archive>.len is created and written, likewise.
PersistLen(outcome) ==
    /\ pc = "persist_len"
    /\ outcome \in {"ok", "create", "write"}
    /\ files' = [files EXCEPT
            !.len = IF outcome = "ok" THEN File(LenText(persist.uncompressedSize))
                    ELSE IF outcome = "write" THEN File(<<>>)
                    ELSE @,
            !.tmp = IF outcome = "ok" THEN @ ELSE NoFile]
    /\ pc' = IF outcome = "ok" THEN "persist_rename" ELSE "persist_failed"
    /\ UNCHANGED <<input, repo, persist, recorded, entered, gradeVars, caseVars, restVars>>

\* <archive>.tmp is renamed to <archive>, and the hash and the size are stored
\* in the input; or the renaming fails.
PersistRename(ok) ==
    /\ pc = "persist_rename"
    /\ IF ok
       THEN /\ files' = [files EXCEPT !.archive = files.tmp, !.tmp = NoFile]
            /\ input' = [storedHash |-> HexString(persist.hash),
                         uncompressedSize |-> persist.uncompressedSize,
                         committed |-> TRUE]
            /\ recorded' = Append(recorded,
                    [op |-> "Persist", storedHash |-> HexString(persist.hash),
                     uncompressedSize |-> persist.uncompressedSize])
            /\ pc' = "persisted"
       ELSE /\ files' = [files EXCEPT !.tmp = NoFile]
            /\ pc' = "persist_failed"
            /\ UNCHANGED <<input, recorded>>
    /\ UNCHANGED <<repo, persist, entered, gradeVars, caseVars, restVars>>

InputNext ==
    \/ Verify
    \/ \E outcome \in {"ok", "mkdir", "archive"} : PersistCreateArchive(outcome)
    \/ \E ok \in BOOLEAN : PersistHash(ok)
    \/ \E outcome \in {"ok", "create", "write"} : PersistSha1(outcome)
    \/ \E outcome \in {"ok", "create", "write"} : PersistLen(outcome)
    \/ \E ok \in BOOLEAN : PersistRename(ok)

SpecInput == InitInput /\ [][InputNext]_vars

\* ------------------------------------------- CalculateScore on its own
\* The runes of the streams compared word by word.
WordRunes == {"a", "A", " ", "U+001C"}

\* The runes of the streams compared number by number.
NumberRunes == {"1", "2", "-", "a"}

\* The tolerances of token-numeric.
Tolerances == {RatZero, Rat(1, 2)}

\* The streams a literal or custom validator reads its score from.
LiteralStreams ==
    {<<>>, <<" ">>, <<"a">>, <<"-", "1">>, <<"0">>, <<"0", ".", "5">>, <<"1">>,
     <<"2">>, <<" ", "0", ".", "2", "5", "U+001C", "2">>,
     <<"N", "a", "N">>, <<"I", "n", "f">>, <<"-", "I", "n", "f">>,
     <<"+", "i", "n", "f", "i", "n", "i", "t", "y">>, <<"1", ".", "5", ".">>}

\* A call of CalculateScore.
InitValidator ==
    /\ pc = "calculate"
    /\ \/ /\ validatorSettings \in [Name : {"token", "token-caseless"}, Tolerance : {RatZero}]
          /\ contestantOutput \in SeqsUpTo(WordRunes, MaxRunes)
          /\ expectedOutput \in SeqsUpTo(WordRunes, MaxRunes)
       \/ /\ validatorSettings \in [Name : {"token-numeric"}, Tolerance : Tolerances]
          /\ contestantOutput \in SeqsUpTo(NumberRunes, MaxRunes)
          /\ expectedOutput \in SeqsUpTo(NumberRunes, MaxRunes)
       \/ /\ validatorSettings \in [Name : {"literal", "custom"}, Tolerance : {RatZero}]
          /\ contestantOutput \in LiteralStreams
          /\ expectedOutput \in {<<>>, <<"1">>}
    /\ calculated = <<>>
    /\ caseFiles = NoCaseFiles
    /\ OutputOnlyIdle
    /\ GradeLoopsIdle
    /\ GradeParametersIdle
    /\ CaseIdle
    /\ InputIdle
    /\ BuilderIdle
    /\ LanguageIdle
    /\ IngressIdle

\* CalculateScore returns.
Calculate ==
    /\ pc = "calculate"
    /\ calculated' = <<CalculateScore(validatorSettings, contestantOutput, expectedOutput)>>
    /\ pc' = "calculated"
    /\ UNCHANGED <<validatorSettings, contestantOutput, expectedOutput, caseFiles,
                   outputOnlyVars, builderVars, ingressVars, languageVars, gradeVars, caseVars, inputVars>>

SpecValidator == InitValidator /\ [][Calculate]_vars

\* ------------------------------------------- CalculateScore and separators
\* The streams every stream of words is compared with.
WordReferences == {<<>>, <<"a">>, <<"A", " ", "a">>, <<" ", "a", "U+001C">>}

\* The streams every stream of numbers is compared with.
NumberReferences == {<<>>, <<"1">>, <<"-">>, <<"1", "a", "2">>, <<"a", "1", "a">>}

\* A call of CalculateScore on some stream and a reference stream, either of
\* them the contestant's.
InitSeparators ==
    /\ pc = "calculate"
    /\ \/ /\ validatorSettings \in [Name : {"token", "token-caseless"}, Tolerance : {RatZero}]
          /\ \/ /\ contestantOutput \in SeqsUpTo(WordRunes, MaxRunes)
                /\ expectedOutput \in WordReferences
             \/ /\ contestantOutput \in WordReferences
                /\ expectedOutput \in SeqsUpTo(WordRunes, MaxRunes)
       \/ /\ validatorSettings \in [Name : {"token-numeric"}, Tolerance : Tolerances]
          /\ \/ /\ contestantOutput \in SeqsUpTo(NumberRunes, MaxRunes)
                /\ expectedOutput \in NumberReferences
             \/ /\ contestantOutput \in NumberReferences
                /\ expectedOutput \in SeqsUpTo(NumberRunes, MaxRunes)
       \/ /\ validatorSettings \in [Name : {"literal", "custom"}, Tolerance : {RatZero}]
          /\ contestantOutput \in LiteralStreams
          /\ expectedOutput \in {<<>>, <<"1">>}
    /\ calculated = <<>>
    /\ caseFiles = NoCaseFiles
    /\ OutputOnlyIdle
    /\ GradeLoopsIdle
    /\ GradeParametersIdle
    /\ CaseIdle
    /\ InputIdle
    /\ BuilderIdle
    /\ LanguageIdle
    /\ IngressIdle

SpecSeparators == InitSeparators /\ [][Calculate]_vars

\* ------------------------------------ Grade's validation of the files of a case
\* The outputs a contestant, a problemsetter and a custom validator can write.
GradeStreams ==
    {<<>>, <<"1">>, <<"2">>, <<"0", ".", "5">>, <<"a">>, <<"2", " ", "1">>}

\* The validators of the problems Grade validates here.
GradeValidators ==
    {[Name |-> "token", Tolerance |-> RatZero],
     [Name |-> "token-numeric", Tolerance |-> Rat(1, 2)],
     [Name |-> "literal", Tolerance |-> RatZero],
     [Name |-> "custom", Tolerance |-> RatZero]}

\* Grade when its compile loop starts, on a problem of at most one case whose
\* outputs are any files: <case>.out of the run and of the problem, which may be
\* missing, and for a custom validator what its run writes and reports.
InitValidate ==
    /\ pc = "compile"
    /\ settings \in UnitSettings(1)
    /\ \E m \in MaxScores : runResult = NewRunResult("JE", m)
    /\ gi = 1
    /\ cj = 1
    /\ caseResults = <<>>
    /\ groupResults = <<>>
    /\ correct = TRUE
    /\ score = RatZero
    /\ ctx = [PreserveFiles |-> FALSE]
    /\ run = [Language |-> "cpp"]
    /\ sandbox = [Supported |-> TRUE, Verdicts |-> {"OK", "RTE"}, WallTimes |-> {0}]
    /\ validatorSettings \in GradeValidators
    /\ problem = [Interactive |-> NoInteractive, Validator |-> validatorSettings.Name,
                  OverallWallTimeLimit |-> MaxWallTime]
    /\ binaries = PlannedBinaries("cpp", NoInteractive, validatorSettings.Name)
    /\ regularBinaryCount = 1
    /\ bi = 1
    /\ runRoot = TRUE
    /\ err = "nil"
    /\ compiled = <<>>
    /\ sandboxRuns = <<>>
    /\ wa = "OK" /\ wb = "OK" /\ wc = "OK"
    /\ wres = <<>>
    /\ IF validatorSettings.Name = "custom"
       THEN caseFiles \in [contestant : {File(<<"1">>)},
                           expected : {NoText, File(<<"1">>)},
                           validatorOut : {File(data) : data \in GradeStreams},
                           validateMeta : [Verdict : {"OK", "RTE"}]]
       ELSE caseFiles \in [contestant : {NoText} \cup {File(data) : data \in GradeStreams},
                           expected : {NoText} \cup {File(data) : data \in GradeStreams},
                           validatorOut : {NoText},
                           validateMeta : [Verdict : {"OK"}]]
    /\ contestantOutput = <<>>
    /\ expectedOutput = <<>>
    /\ calculated = <<>>
    /\ OutputOnlyIdle
    /\ CaseIdle
    /\ InputIdle
    /\ BuilderIdle
    /\ LanguageIdle
    /\ IngressIdle

\* The file Grade opens as contestantFd: <case>.out of the run, or for a custom
\* validator what the validator wrote, /dev/null if its verdict is not OK.
ContestantFile ==
    IF problem.Validator = "custom"
    THEN IF caseFiles.validateMeta.Verdict # "OK" THEN DevNull ELSE caseFiles.validatorOut
    ELSE caseFiles.contestant

\* The file Grade opens as expectedFd.
ExpectedFile == IF problem.Validator = "custom" THEN DevNull ELSE caseFiles.expected

\* The score of a float64 that is a number.
RunScore(calculatedScore) == calculatedScore.score.value

\* The validate loop's body for a case with verdict OK, on the files of the
\* case: the iteration is abandoned if a file does not open; else
\* CalculateScore is called with expectedFd and contestantFd, in this order.
ValidateFiles ==
    IF ~ContestantFile.exists \/ ~ExpectedFile.exists
    THEN ValidateSkip
    ELSE ValidateCase(RunScore(CalculateScore(validatorSettings,
                                              ExpectedFile.data, ContestantFile.data)))

ValidateNext ==
    \/ CompileOK
    \/ CompileEnd
    \/ \E failure \in CompileFailures : CompileFail(failure)
    \/ \E v \in ExecVerdicts, w \in WallTimes : ExecuteCase(v, w)
    \/ ExecuteGroupEnd
    \/ ExecuteEnd
    \/ ValidateFiles
    \/ ValidateNotOK
    \/ ValidateGroupEnd
    \/ \E e \in UploadErrors : Finalize(e)

SpecValidate == InitValidate /\ [][ValidateNext]_vars

\* ------------------------------------ Grade on an output-only submission
\* The names of the entries of the ZIP files: outputs of cases, one in a
\* directory, a file that is no output, and the output of no case.
EntryNames ==
    {OutName(CaseName(1, 1)), <<"d", "/">> \o OutName(CaseName(1, 1)),
     OutName(CaseName(1, 2)), <<CaseName(1, 1), ".txt">>, OutName("x")}

\* The entries of the ZIP files: at the output limit or above it, and
\* readable or not.
Entries ==
    [name : EntryNames, size : {OutputLimit, OutputLimit + 1}, readable : {TRUE}]
    \cup [name : EntryNames, size : {OutputLimit}, readable : {FALSE}]

\* The sources of output-only submissions.
Sources ==
    {PlainSource, [dataurl |-> TRUE, zip |-> FALSE, entries |-> <<>>]}
    \cup {[dataurl |-> TRUE, zip |-> TRUE, entries |-> entries] :
                entries \in SeqsUpTo(Entries, MaxEntries)}

\* Grade at its entry on an output-only submission to a problem whose cases
\* have weight 1.
InitOutputOnly ==
    /\ pc = "entry"
    /\ settings \in UnitSettings(MaxCases)
    /\ \E m \in MaxScores : runResult = NewRunResult("JE", m)
    /\ gi = 1
    /\ cj = 1
    /\ caseResults = <<>>
    /\ groupResults = <<>>
    /\ correct = TRUE
    /\ score = RatZero
    /\ ctx = [PreserveFiles |-> FALSE]
    /\ run = [Language |-> "cat"]
    /\ sandbox = [Supported |-> TRUE, Verdicts |-> {"OK"}, WallTimes |-> {0}]
    /\ problem = [Interactive |-> NoInteractive, Validator |-> "token",
                  OverallWallTimeLimit |-> MaxWallTime]
    /\ binaries = <<>>
    /\ regularBinaryCount = 0
    /\ bi = 1
    /\ runRoot = FALSE
    /\ err = "nil"
    /\ compiled = <<>>
    /\ sandboxRuns = <<>>
    /\ wa = "OK" /\ wb = "OK" /\ wc = "OK"
    /\ wres = <<>>
    /\ source \in Sources
    /\ outputOnlyFiles = <<>>
    /\ written = <<>>
    /\ ValidatorIdle
    /\ caseFiles = NoCaseFiles
    /\ CaseIdle
    /\ InputIdle
    /\ BuilderIdle
    /\ LanguageIdle
    /\ IngressIdle

\* The steps of Grade on an output-only submission to a problem that is not
\* interactive, under a sandbox that is supported: no binary is compiled.
OutputOnlyNext ==
    \/ Enter
    \/ Plan
    \/ \E made \in BOOLEAN : SetupError(made)
    \/ OutputOnlyError
    \/ SetupOK
    \/ CompileEnd
    \/ \E v \in ExecVerdicts, w \in WallTimes : ExecuteCase(v, w)
    \/ ExecuteGroupEnd
    \/ ExecuteEnd
    \/ \E s \in Scores : ValidateCase(s)
    \/ ValidateSkip
    \/ ValidateNotOK
    \/ ValidateGroupEnd
    \/ \E e \in UploadErrors : Finalize(e)

SpecOutputOnly == InitOutputOnly /\ [][OutputOnlyNext]_vars

\* ---------------------------------------- Grade with the runs of its cases
\* Grade from its compile loop on, each case run by the goroutines of its
\* binaries; every run of the sandbox ends with verdict OK.

\* What sandbox.Run returns for the k-th binary of the plan.
OKMeta(k) ==
    [Verdict |-> "OK", ExitStatus |-> 0, Signal |-> "",
     Time |-> IF binaries[k].binaryType = "problemsetter" THEN 7 ELSE k,
     WallTime |-> IF binaries[k].binaryType = "problemsetter" THEN 7 ELSE k,
     Memory |-> IF binaries[k].binaryType = "problemsetter" THEN 7 ELSE k]

InitSequence ==
    /\ pc = "compile"
    /\ settings \in UnitSettings(MaxCases)
    /\ \E m \in MaxScores : runResult = NewRunResult("JE", m)
    /\ gi = 1
    /\ cj = 1
    /\ caseResults = <<>>
    /\ groupResults = <<>>
    /\ correct = TRUE
    /\ score = RatZero
    /\ ctx = [PreserveFiles |-> FALSE]
    /\ run = [Language |-> "cpp"]
    /\ sandbox = [Supported |-> TRUE, Verdicts |-> {"OK"}, WallTimes |-> WallTimes]
    /\ problem \in [Interactive : {i \in Interactives : i.Supported},
                     Validator : {"token", "custom"},
                     OverallWallTimeLimit : {MaxWallTime}]
    /\ binaries = PlannedBinaries("cpp", problem.Interactive, problem.Validator)
    /\ regularBinaryCount = Len(RegularBinaries("cpp", problem.Interactive))
    /\ bi = 1
    /\ runRoot = TRUE
    /\ err = "nil"
    /\ compiled = <<>>
    /\ sandboxRuns = <<>>
    /\ wa = "OK" /\ wb = "OK" /\ wc = "OK"
    /\ wres = <<>>
    /\ CaseIdle
    /\ InputIdle
    /\ RestIdle

\* The execute loop's body on a case that is run: metaChan is made and the
\* goroutine of each binary is started.
StartCase ==
    /\ pc = "execute"
    /\ gi <= Len(settings)
    /\ cj <= Len(settings[gi].Cases)
    /\ ~WallTimeExceeded(runResult.WallTime, problem.OverallWallTimeLimit)
    /\ run.Language # "cat"
    /\ runMetas' = [name \in {binaries[k].name : k \in RunBinaries} |->
                        OKMeta(BinaryNamed(name))]
    /\ senders' = [name \in {binaries[k].name : k \in RunBinaries} |-> "running"]
    /\ metaChan' = <<>>
    /\ chanClosed' = FALSE
    /\ collect' = NewCollect
    /\ sandboxRuns' = Append(sandboxRuns, <<gi, cj>>)
    /\ ranAs' = RunsOfCase
    /\ pc' = "collect"
    /\ UNCHANGED <<runMeta, settings, gi, cj, caseResults, groupResults, runResult, correct,
                   score, binaries, regularBinaryCount, bi, runRoot, err, compiled,
                   wa, wb, wc, wres, env, inputVars,
                   validatorVars, caseFiles, outputOnlyVars, builderVars, ingressVars, languages, compiledAs>>

\* The end of the execute loop's body on a case that was run: the metadata of
\* the case goes to the run's result and to caseResults.
FinishCase ==
    /\ pc = "case_done"
    /\ LET caseData == settings[gi].Cases[cj]
       IN  /\ runResult' = [runResult EXCEPT !.Verdict = worseVerdict(@, runMeta.Verdict),
                                             !.WallTime = @ + runMeta.WallTime]
           /\ caseResults' = Append(caseResults,
                [Verdict |-> runMeta.Verdict,
                 Meta |-> [Verdict |-> runMeta.Verdict, WallTime |-> runMeta.WallTime],
                 Score |-> RatZero,
                 ContestScore |-> RatZero,
                 MaxScore |-> RatMul(runResult.MaxScore,
                                     RatMul(caseData.Weight, totalWeightFactor(settings)))])
    /\ cj' = cj + 1
    /\ pc' = "execute"
    /\ UNCHANGED <<settings, gi, groupResults, correct, score,
                   binaries, regularBinaryCount, bi, runRoot, err, compiled, sandboxRuns,
                   wa, wb, wc, wres, env, caseVars, inputVars, restVars>>

\* The execute loop's body on a case that is not run: the wall time limit has
\* been exceeded.
SynthesiseCase ==
    /\ WallTimeExceeded(runResult.WallTime, problem.OverallWallTimeLimit)
    /\ ExecuteCase("TLE", 0)

SequenceNext ==
    \/ CompileOK
    \/ CompileEnd
    \/ StartCase
    \/ \E name \in DOMAIN senders : Send(name)
    \/ Receive
    \/ CloseChan
    \/ Reconcile
    \/ FinishCase
    \/ SynthesiseCase
    \/ ExecuteGroupEnd
    \/ ExecuteEnd
    \/ \E s \in {RatZero, RatOne} : ValidateCase(s)
    \/ ValidateNotOK
    \/ ValidateGroupEnd
    \/ Finalize("nil")

SpecSequence == InitSequence /\ [][SequenceNext]_vars

\* ------------------------------------------------- CreateArchiveFromGit
\* The name of a case or of a group is the sequence of its runes.
\* The code point of a rune of a name.
RuneCode(r) == CASE r = "." -> 46 [] r = "1" -> 49 [] r = "2" -> 50

\* a < b for strings: byte by byte, a proper prefix first.
RECURSIVE NameLess(_, _)
NameLess(a, b) ==
    IF b = <<>> THEN FALSE
    ELSE IF a = <<>> THEN TRUE
    ELSE IF a[1] # b[1] THEN RuneCode(a[1]) < RuneCode(b[1])
    ELSE NameLess(Tail(a), Tail(b))

\* sort.Sort by name of a sequence of records whose names differ.
RECURSIVE SortByName(_)
SortByName(records) ==
    IF records = <<>> THEN <<>>
    ELSE LET first == CHOOSE k \in 1..Len(records) :
                        \A n \in 1..Len(records) :
                            n = k \/ NameLess(records[k].Name, records[n].Name)
         IN  <<records[first]>> \o
             SortByName(SubSeq(records, 1, first - 1) \o
                        SubSeq(records, first + 1, Len(records)))

\* strings.SplitN(caseName, ".", 2)[0]: the runes before the first ".", or the
\* whole name.
GroupName(caseName) ==
    IF \E k \in 1..Len(caseName) : caseName[k] = "."
    THEN LET dot == CHOOSE k \in 1..Len(caseName) :
                        /\ caseName[k] = "."
                        /\ \A n \in 1..(k - 1) : caseName[n] # "."
         IN  SubSeq(caseName, 1, dot - 1)
    ELSE caseName

\* x + y in float64.
FloatAdd(x, y) ==
    IF x.class = "NaN" \/ y.class = "NaN" THEN NaN
    ELSE IF x.class # "finite" /\ y.class # "finite"
    THEN IF x.class = y.class THEN x ELSE NaN
    ELSE IF x.class # "finite" THEN x
    ELSE IF y.class # "finite" THEN y
    ELSE Finite(RatAdd(x.value, y.value))

\* x / y in float64, for x and y that are numbers and not negative.
FloatQuo(x, y) ==
    IF RatCmp(y.value, RatZero) # 0 THEN Finite(RatQuo(x.value, y.value))
    ELSE IF RatCmp(x.value, RatZero) = 0 THEN NaN
    ELSE Inf(1)

\* x == y in float64.
FloatEq(x, y) ==
    /\ x.class # "NaN"
    /\ y.class # "NaN"
    /\ x.class = y.class
    /\ x.class = "finite" => RatCmp(x.value, y.value) = 0

\* The sum of the weights of the map, taken in the order of names.
RECURSIVE SumRaw(_, _)
SumRaw(names, weights) ==
    IF names = <<>> THEN Finite(RatZero)
    ELSE FloatAdd(SumRaw(Tail(names), weights), Finite(weights[names[1]]))

\* The maps cases and groupWeights after the loop over rawCaseWeights has
\* visited the names in this order.
RECURSIVE GroupCases(_, _, _, _)
GroupCases(names, weights, totalWeight, maps) ==
    IF names = <<>> THEN maps
    ELSE LET caseName == names[1]
             groupName == GroupName(caseName)
             weight == FloatQuo(Finite(weights[caseName]), totalWeight)
             old == IF groupName \in DOMAIN maps.groupWeights
                    THEN maps
                    ELSE [groupWeights |-> (groupName :> Finite(RatZero)) @@ maps.groupWeights,
                          cases |-> (groupName :> <<>>) @@ maps.cases]
         IN  GroupCases(Tail(names), weights, totalWeight,
                [groupWeights |-> [old.groupWeights EXCEPT
                                    ![groupName] = FloatAdd(@, weight)],
                 cases |-> [old.cases EXCEPT
                                    ![groupName] = Append(@, [Name |-> caseName,
                                                              Weight |-> weight])]])

\* The sequences that hold every element of S once: the orders in which a
\* range loop can visit a map whose keys are S.
MapOrders(S) ==
    {order \in [1..Cardinality(S) -> S] :
        \A i, j \in 1..Cardinality(S) : order[i] = order[j] => i = j}

\* The groups appended to settings.Cases for the names of groups in this order.
RECURSIVE AppendGroups(_, _)
AppendGroups(groupNames, maps) ==
    IF groupNames = <<>> THEN <<>>
    ELSE <<[Cases |-> SortByName(maps.cases[groupNames[1]]),
            Name |-> groupNames[1],
            Weight |-> maps.groupWeights[groupNames[1]]]>> \o
         AppendGroups(Tail(groupNames), maps)

\* settings.Cases as CreateArchiveFromGit generates it, the two loops over the
\* maps visiting the names in these orders.
GeneratedCases(weights, caseOrder, groupOrder) ==
    LET totalWeight == SumRaw(caseOrder, weights)
        maps == GroupCases(caseOrder, weights, totalWeight,
                           [groupWeights |-> <<>>, cases |-> <<>>])
    IN  SortByName(AppendGroups(groupOrder, maps))

\* The tolerance CreateArchiveFromGit gives token-numeric.
DefaultTolerance == Rat(1, 1000000)

\* settings.Validator after the first statements of CreateArchiveFromGit.
BuiltValidator(validator) ==
    IF validator.Name = "token-numeric"
    THEN [validator EXCEPT !.Tolerance = <<DefaultTolerance>>]
    ELSE validator

\* The names of the cases of the problems built here.
CaseNames ==
    {<<"1">>, <<"1", ".", "1">>, <<"1", ".", "2">>, <<"1", "2", ".", "1">>,
     <<"2">>, <<"2", ".", "1", ".", "1">>}

\* The weights a test plan gives, and the 1.0 of a case it does not name.
RawCaseWeights ==
    UNION {[names -> {Rat(w, 1) : w \in 0..MaxWeight}] :
            names \in {S \in SUBSET CaseNames : Cardinality(S) <= MaxCases}}

\* The validator settings a loader returns.
LoadedValidators ==
    [Name : {"token", "token-numeric", "custom"}, Tolerance : {Unset, <<Rat(1, 2)>>}]

\* What makes CreateArchiveFromGit return an error: the loader, or the
\* repository, the walk of the tree or the archive.
BuildFailures == {"load", "archive"}

\* A call of CreateArchiveFromGit: the loader is about to be asked for the
\* settings; the tree of the repository holds the cases of rawCaseWeights.
InitBuilder ==
    /\ pc = "build"
    /\ loaded \in LoadedValidators
    /\ rawCaseWeights \in RawCaseWeights
    /\ built = <<>>
    /\ ValidatorIdle
    /\ caseFiles = NoCaseFiles
    /\ OutputOnlyIdle
    /\ GradeLoopsIdle
    /\ GradeParametersIdle
    /\ CaseIdle
    /\ InputIdle
    /\ LanguageIdle
    /\ IngressIdle

\* CreateArchiveFromGit returns the settings: the range loops visit the maps
\* in any order.
CreateArchiveFromGit ==
    /\ pc = "build"
    /\ \E caseOrder \in MapOrders(DOMAIN rawCaseWeights) :
         LET groupNames == {GroupName(caseName) : caseName \in DOMAIN rawCaseWeights}
         IN  \E groupOrder \in MapOrders(groupNames) :
                built' = <<[err |-> "nil",
                            Validator |-> BuiltValidator(loaded),
                            Cases |-> GeneratedCases(rawCaseWeights, caseOrder, groupOrder)]>>
    /\ pc' = "built"
    /\ UNCHANGED <<loaded, rawCaseWeights, validatorVars, caseFiles, outputOnlyVars,
                   languageVars, ingressVars, gradeVars, caseVars, inputVars>>

\* CreateArchiveFromGit returns an error and no settings.
CreateArchiveFails(failure) ==
    /\ pc = "build"
    /\ built' = <<[err |-> failure, Validator |-> Unset, Cases |-> <<>>]>>
    /\ pc' = "build_failed"
    /\ UNCHANGED <<loaded, rawCaseWeights, validatorVars, caseFiles, outputOnlyVars,
                   languageVars, ingressVars, gradeVars, caseVars, inputVars>>

BuilderNext ==
    \/ CreateArchiveFromGit
    \/ \E failure \in BuildFailures : CreateArchiveFails(failure)

SpecBuilder == InitBuilder /\ [][BuilderNext]_vars

\* ------------------------------------------------------------------ claims

\* C1: a group has a non-zero score or contest score only if every one of its
\* cases has execute verdict OK and a non-zero validation score, and a group
\* with a case of verdict WA or of a non-OK execute verdict has score and
\* contest score 0.
C1_GroupAllOrNothing ==
    \A i \in 1..Len(groupResults) :
        Closed(i) =>
            LET g == groupResults[i]
                cs == {g.Cases[j] : j \in 1..Len(g.Cases)}
            IN  /\ (g.Score # RatZero \/ g.ContestScore # RatZero) =>
                        \A c \in cs : c.Meta.Verdict = "OK" /\ RatLt(RatZero, c.Score)
                /\ (\E c \in cs : c.Verdict = "WA" \/ c.Meta.Verdict # "OK") =>
                        g.Score = RatZero /\ g.ContestScore = RatZero

\* C2: if every case is executed with verdict OK and scored 1, the run has
\* verdict AC and score 1 and every case has verdict AC.
C2_AllCorrectIsAC ==
    (pc = "done" /\ \A p \in CasePos :
                        CaseAt(p).Meta.Verdict = "OK" /\ CaseAt(p).Score = RatOne)
    => /\ runResult.Verdict = "AC"
       /\ runResult.Score = RatOne
       /\ \A p \in CasePos : CaseAt(p).Verdict = "AC"

C2_Witness ==
    /\ pc = "done"
    /\ Cardinality(CasePos) = 2
    /\ \A p \in CasePos : CaseAt(p).Meta.Verdict = "OK" /\ CaseAt(p).Score = RatOne
    /\ runResult.Verdict = "AC"

\* Every case executed with verdict OK was scored 0 by the validator, and
\* there is such a case.
AllScoredZero ==
    /\ pc = "done"
    /\ \A p \in CasePos : CaseAt(p).Meta.Verdict = "OK" => CaseAt(p).Verdict = "WA"
    /\ \E p \in CasePos : CaseAt(p).Meta.Verdict = "OK"

AccumulatedVerdict == Greatest(MergeOrder, MergedVerdicts)
AccumulatedScore == SumField(groupResults, "Score")

\* C5: a result returned after validation never has verdict OK, an all-correct
\* run having verdict AC and score 1, and never has verdict PA with score 0,
\* which is reported as WA; otherwise its verdict is the accumulated one.
C5_FinalVerdict ==
    pc = "done" =>
        /\ runResult.Verdict # "OK"
        /\ ~(runResult.Verdict = "PA" /\ runResult.Score = RatZero)
        /\ AccumulatedVerdict = "OK" =>
                runResult.Verdict = "AC" /\ runResult.Score = RatOne
        /\ (AccumulatedVerdict = "PA" /\ AccumulatedScore = RatZero) =>
                runResult.Verdict = "WA" /\ runResult.Score = RatZero
        /\ (AccumulatedVerdict # "OK"
              /\ ~(AccumulatedVerdict = "PA" /\ AccumulatedScore = RatZero)) =>
                runResult.Verdict = AccumulatedVerdict /\ runResult.Score = AccumulatedScore

C5_Witness ==
    /\ pc = "done"
    /\ runResult.Verdict = "WA"
    /\ AccumulatedVerdict = "PA"
    /\ \E p \in CasePos : CaseAt(p).Verdict = "PA"

\* C6: a validated case has contest_score = max_score x (weight / W) x score,
\* the run has contest_score = max_score x score, and every contest score lies
\* between 0 and the max_score beside it.
C6_ContestScore ==
    pc = "done" =>
        LET W == TotalWeight
        IN  /\ \A p \in CasePos :
                   LET c == CaseAt(p)
                   IN  /\ c.Verdict \in {"AC", "WA", "PA"} =>
                            RatMul(c.ContestScore, W) =
                                RatMul(RatMul(runResult.MaxScore, WeightAt(p)), c.Score)
                       /\ RatLe(RatZero, c.ContestScore)
                       /\ RatLe(c.ContestScore, c.MaxScore)
            /\ \A i \in 1..Len(groupResults) :
                   /\ RatLe(RatZero, groupResults[i].ContestScore)
                   /\ RatLe(groupResults[i].ContestScore, groupResults[i].MaxScore)
            /\ runResult.ContestScore = RatMul(runResult.MaxScore, runResult.Score)
            /\ RatLe(RatZero, runResult.ContestScore)
            /\ RatLe(runResult.ContestScore, runResult.MaxScore)

C6_Witness ==
    /\ pc = "done"
    /\ \E p \in CasePos :
           /\ CaseAt(p).Verdict = "PA"
           /\ RatLt(RatZero, CaseAt(p).ContestScore)
           /\ RatLt(CaseAt(p).ContestScore, CaseAt(p).MaxScore)
           /\ RatLt(CaseAt(p).MaxScore, runResult.MaxScore)
    /\ RatLt(RatZero, runResult.ContestScore)

\* C7: worseVerdict is commutative, associative, idempotent, and monotone
\* along the verdict order.
C7_WorseAlgebra ==
    pc = "worse_done" =>
        /\ wres.ab = wres.ba
        /\ wres.a_bc = wres.ab_c
        /\ wres.aa = wa
        /\ Pos(MergeOrder, wa) <= Pos(MergeOrder, wb) =>
                Pos(MergeOrder, wres.ac) <= Pos(MergeOrder, wres.bc)

C7_Witness ==
    /\ pc = "worse_done"
    /\ Cardinality({wa, wb, wc}) = 3
    /\ wres.ab = wb
    /\ wres.ab_c = wc

C9_JEAbsorbs ==
    /\ pc = "worse_done" => wres.je_a = "JE" /\ wres.a_je = "JE"
    /\ InGrade /\ (\E p \in CasePos : CaseAt(p).Meta.Verdict = "JE") =>
            runResult.Verdict = "JE"
    /\ InGrade /\ (\E j \in 1..Len(caseResults) : caseResults[j].Meta.Verdict = "JE") =>
            runResult.Verdict = "JE"

C9_Witness ==
    /\ pc = "done"
    /\ Cardinality(CasePos) = 2
    /\ \E p \in CasePos : CaseAt(p).Meta.Verdict = "JE"
    /\ \E p \in CasePos : CaseAt(p).Verdict = "PA"
    /\ runResult.Verdict = "JE"

\* C10: when the total weight is positive the normalised weights sum to 1,
\* the max_score of a group is the sum of the max_scores of its cases, and
\* the max_scores of the cases, and those of the groups, sum to the run's.
C10_WeightsSumToOne ==
    pc \in {"validate", "done"} =>
        LET cases == AllCases(settings)
            W == SumWeights(cases)
        IN  RatLt(RatZero, W) =>
                /\ SumWeights([k \in 1..Len(cases) |->
                        [Weight |-> RatQuo(cases[k].Weight, W)]]) = RatOne
                /\ \A p \in CasePos :
                        CaseAt(p).MaxScore =
                            RatMul(runResult.MaxScore, RatQuo(WeightAt(p), W))
                /\ \A i \in 1..Len(groupResults) :
                        groupResults[i].MaxScore =
                            SumField(groupResults[i].Cases, "MaxScore")
                /\ SumField(AllCases(groupResults), "MaxScore") = runResult.MaxScore
                /\ SumField(groupResults, "MaxScore") = runResult.MaxScore

C10_Witness ==
    /\ pc = "done"
    /\ Len(groupResults) = 2
    /\ RatLt(RatZero, TotalWeight)
    /\ \A i \in 1..2 : RatLt(RatZero, groupResults[i].MaxScore)
    /\ SumField(groupResults, "MaxScore") = runResult.MaxScore

\* C11: when the total weight is not positive, the total weight and every case
\* weight are replaced by 1: every case of the run has normalised weight 1, so
\* that its max_score is the run's, and none has normalised weight 0.
C11_ZeroWeightSubstitution ==
    (InGrade /\ RatLe(TotalWeight, RatZero)) =>
        /\ totalWeightFactor(settings) = RatOne
        /\ \A p \in CasePos :
               /\ CaseAt(p).MaxScore = RatMul(runResult.MaxScore, RatOne)
               /\ CaseAt(p).MaxScore # RatZero

\* The binaries whose compilation the sandbox was asked for are the first
\* binaries of the plan, in the order of the plan.
CompiledInPlanOrder ==
    /\ Len(compiled) <= Len(binaries)
    /\ \A k \in 1..Len(compiled) : compiled[k] = binaries[k].name

\* C12: the binaries are compiled one at a time in the order of the plan, and
\* at the first binary that fails to compile Grade stops: no later binary is
\* compiled, no case is executed or validated, and Grade returns a result with
\* verdict CE and the compile error, and a nil error.
C12_CompileStops ==
    /\ pc \in {"compile", "execute", "validate", "done", "done_ce"} => CompiledInPlanOrder
    /\ pc \in {"execute", "validate", "done"} =>
            /\ Len(compiled) = Len(binaries)
            /\ \A k \in 1..Len(binaries) : runResult.CompileMeta[binaries[k].name] = "OK"
    /\ pc = "done_ce" =>
            /\ Len(compiled) = bi
            /\ \A k \in 1..(bi - 1) : runResult.CompileMeta[binaries[k].name] = "OK"
            /\ sandboxRuns = <<>>
            /\ caseResults = <<>>
            /\ groupResults = <<>>
            /\ runResult.Groups = <<>>
            /\ runResult.Verdict = "CE"
            /\ runResult.CompileError
            /\ err = "nil"

\* The cases the execute loop has gone through, in declaration order.
ExecutedCases == AllCases(groupResults) \o caseResults

\* The place in declaration order of the case at position p of the settings.
Ordinal(p) == Len(AllCases(SubSeq(settings, 1, p[1] - 1))) + p[2]

\* The places of the cases the sandbox was asked to run.
RanOrdinals == {Ordinal(sandboxRuns[k]) : k \in 1..Len(sandboxRuns)}

\* The wall time of the first n of the cases cs.
RECURSIVE WallTimeOf(_, _)
WallTimeOf(cs, n) ==
    IF n = 0 THEN 0 ELSE WallTimeOf(cs, n - 1) + cs[n].Meta.WallTime

Returned ==
    pc \in {"ret_unsupported", "ret_interactive", "ret_setup", "ret_zip", "done_ce", "done"}

\* C18: however Grade returns, the directory runRoot does not exist afterwards
\* unless PreserveFiles is set, and when it is set no step of Grade removes the
\* directory.
C18_ScratchDirectory ==
    /\ [](Returned /\ ~ctx.PreserveFiles => ~runRoot)
    /\ [][ctx.PreserveFiles /\ runRoot => runRoot']_vars

\* Grade returns the error of uploadFiles, and runRoot, which held the files of
\* the run, is gone.
C18_Witness ==
    /\ pc = "done"
    /\ err = "upload failed"
    /\ ~ctx.PreserveFiles
    /\ compiled # <<>>
    /\ sandboxRuns # <<>>
    /\ ~runRoot

\* What the sandbox returns for the contestant binaries of the case, by name.
ContestantNames ==
    {binaries[k].name : k \in {n \in RunBinaries : binaries[n].binaryType = "contestant"}}

\* The names of the problemsetter's binaries of the case: one or none.
ParentNames ==
    {binaries[k].name : k \in {n \in RunBinaries : binaries[n].binaryType = "problemsetter"}}

\* The worst of the verdicts of the contestant binaries.
WorstContestantVerdict ==
    Greatest(MergeOrder, {"OK"} \cup {runMetas[name].Verdict : name \in ContestantNames})

\* C14: when every contestant binary of a case has verdict OK and the
\* problemsetter's has not, the case has verdict OLE if the problemsetter's
\* verdict is OLE, else TLE if it is TLE, else RTE if its exit status is 239,
\* 240, 241 or 242, else RTE if its signal is SIGPIPE, else JE; in every other
\* case the verdict is the worst of the contestants' verdicts.
C14_InteractiveReconciliation ==
    pc = "case_done" =>
        IF /\ WorstContestantVerdict = "OK"
           /\ \E name \in ParentNames : runMetas[name].Verdict # "OK"
        THEN \A name \in ParentNames :
                LET parent == runMetas[name]
                IN  runMeta.Verdict =
                        CASE parent.Verdict = "OLE" -> "OLE"
                          [] parent.Verdict = "TLE" -> "TLE"
                          [] parent.Verdict \notin {"OLE", "TLE"}
                                /\ parent.ExitStatus \in 239..242 -> "RTE"
                          [] parent.Verdict \notin {"OLE", "TLE"}
                                /\ parent.ExitStatus \notin 239..242
                                /\ parent.Signal = "SIGPIPE" -> "RTE"
                          [] OTHER -> "JE"
        ELSE runMeta.Verdict = WorstContestantVerdict

C14_Witness ==
    /\ pc = "case_done"
    /\ Cardinality(ContestantNames) = 2
    /\ WorstContestantVerdict = "OK"
    /\ \E name \in ParentNames :
           /\ runMetas[name].Verdict = "RTE"
           /\ runMetas[name].ExitStatus = 0
           /\ runMetas[name].Signal = "SIGPIPE"
    /\ runMeta.Verdict = "RTE"

\* The locals of the collection loop once it has received the results of the
\* first n binaries of the plan, in the order of the plan.
RECURSIVE CollectedInPlanOrder(_)
CollectedInPlanOrder(n) ==
    IF n = 0 THEN NewCollect
    ELSE Collected(CollectedInPlanOrder(n - 1),
                   [name |-> binaries[n].name,
                    runMeta |-> runMetas[binaries[n].name],
                    binaryType |-> binaries[n].binaryType])

\* C15: whatever the order in which the binaries of a case deliver their
\* results, the verdict of the case is the one it has when they deliver them
\* in the order of the plan.
C15_VerdictOrderIndependent ==
    pc = "case_done" =>
        LET c == CollectedInPlanOrder(regularBinaryCount)
        IN  runMeta.Verdict = ReconciledVerdict(c.parentMetadata, c.finalVerdict)

\* Two contestants end with different verdicts and the result of the second
\* is received before that of the first, as the memory collected shows.
C15_Witness ==
    /\ pc = "case_done"
    /\ Cardinality(ContestantNames) = 2
    /\ runMetas["contestant1"].Verdict = "TLE"
    /\ runMetas["contestant2"].Verdict = "RTE"
    /\ collect.totalMemory = 6
    /\ runMeta.Verdict = "RTE"

RECURSIVE SumOver(_, _)
SumOver(names, f) ==
    IF names = {} THEN 0
    ELSE LET name == CHOOSE x \in names : TRUE
         IN  runMetas[name][f] + SumOver(names \ {name}, f)

\* C16: the metadata of a case has the sum of the CPU times of the contestant
\* binaries, the greatest of their wall times and the sum of their memory,
\* whatever the order their results arrive in; the problemsetter's binary
\* counts for none of them.
C16_ChosenMetadata ==
    pc = "case_done" =>
        /\ runMeta.Time = SumOver(ContestantNames, "Time")
        /\ \A name \in ContestantNames : runMeta.WallTime >= runMetas[name].WallTime
        /\ \E name \in ContestantNames : runMeta.WallTime = runMetas[name].WallTime
        /\ runMeta.Memory = SumOver(ContestantNames, "Memory")

\* Every goroutine of the case has sent its result.
AllSent == \A name \in DOMAIN senders : senders[name] = "sent"

\* The state of metaChan, its senders and its receiver at any time.
ChannelSafe ==
    /\ pc # "panic"
    /\ ChanCapacity = Cardinality(RunBinaries)
    /\ DOMAIN senders = {binaries[k].name : k \in RunBinaries}
    /\ Cardinality(DOMAIN senders) = Cardinality(RunBinaries)
    /\ Len(metaChan) <= ChanCapacity
    /\ \A name \in DOMAIN senders :
           senders[name] = "running" => Len(metaChan) < ChanCapacity /\ ~chanClosed
    /\ Cardinality({name \in DOMAIN senders : senders[name] = "sent"})
            = collect.i + Len(metaChan)
    /\ chanClosed <=> pc \in {"reconcile", "case_done"}
    /\ chanClosed => collect.i = Cardinality(RunBinaries) /\ metaChan = <<>> /\ AllSent

\* C17: one goroutine for each binary but the validator sends one result on a
\* channel with room for all of them; the receiver takes that many results and
\* then closes the channel. No goroutine finds the channel full or closed,
\* none is left when the channel is closed, and once every run of the sandbox
\* has returned the collection loop ends.
C17_ChannelProtocol ==
    /\ []ChannelSafe
    /\ (AllSent ~> pc = "case_done")

C17_Witness ==
    /\ pc = "case_done"
    /\ Cardinality(DOMAIN senders) = 3
    /\ Len(binaries) = 4
    /\ collect.i = 3
    /\ chanClosed
    /\ AllSent

\* The archive has the hash that the first word of <archive>.sha1 states.
HashMatches(fs) ==
    /\ fs.archive.exists
    /\ getStoredHash(fs).err = "nil"
    /\ getStoredHash(fs).value = HexString(Sha1sum(fs.archive.data))

\* The archive has the uncompressed size that <archive>.len states.
LengthMatches(fs) ==
    /\ fs.archive.exists
    /\ getStoredLength(fs).err = "nil"
    /\ getStoredLength(fs).value = UncompressedSize(fs.archive.data)

\* C19: Verify succeeds if and only if the SHA-1 of the archive equals the hash
\* stored in <archive>.sha1 and the uncompressed size of the archive equals the
\* length stored in <archive>.len; a mismatch of either makes Verify fail.
C19_VerifyIntegrity ==
    /\ pc = "verified" => HashMatches(files) /\ LengthMatches(files)
    /\ pc = "verify_failed" => ~(HashMatches(files) /\ LengthMatches(files))

\* The last two entries of recorded are a Persist and the Verify after it.
VerifiedAfterPersist ==
    /\ pc = "verified"
    /\ Len(recorded) >= 2
    /\ recorded[Len(recorded) - 1].op = "Persist"

\* What holds when Persist has returned nil.
PersistedFiles ==
    /\ files.archive = File(repo)
    /\ ~files.tmp.exists
    /\ HashMatches(files)
    /\ LengthMatches(files)
    /\ input.committed
    /\ VerifyResult(files) = [err |-> "nil", storedHash |-> input.storedHash,
                              uncompressedSize |-> input.uncompressedSize]

\* C20: after Persist returns successfully the archive exists at its final
\* path, both sidecars exist and describe exactly the bytes of that archive,
\* <archive>.tmp no longer exists, and the Verify that follows succeeds and
\* records the hash and the uncompressed size that Persist recorded; the
\* archive at its final path changes only by the renaming of <archive>.tmp.
C20_PersistVerifyRoundTrip ==
    /\ [](pc = "persisted" => PersistedFiles)
    /\ [](VerifiedAfterPersist =>
            /\ recorded[Len(recorded)].op = "Verify"
            /\ recorded[Len(recorded)].storedHash
                 = recorded[Len(recorded) - 1].storedHash
            /\ recorded[Len(recorded)].uncompressedSize
                 = recorded[Len(recorded) - 1].uncompressedSize)
    /\ [][pc = "persisted" => pc' = "verified"]_vars
    /\ [][files'.archive # files.archive =>
            /\ pc = "persist_rename"
            /\ files.tmp.exists
            /\ files'.archive = files.tmp
            /\ ~files'.tmp.exists]_vars

\* A Persist replaced a different archive whose sidecars were damaged, and the
\* Verify after it has succeeded.
C20_Witness ==
    /\ VerifiedAfterPersist
    /\ files.archive = File(MaxArchives)
    /\ input.uncompressedSize = UncompressedSize(MaxArchives)

\* The tokens the scanner of a validator finds in a stream.
RECURSIVE Tokens(_, _)
Tokens(name, data) ==
    LET next == Scan(name, data)
    IN  IF next.ok THEN <<next.token>> \o Tokens(name, next.rest) ELSE <<>>

\* The streams have as many tokens, and the tokens match pair by pair.
StreamsMatch(v, contestantData, expectedData) ==
    LET contestantTokens == Tokens(v.Name, contestantData)
        expectedTokens == Tokens(v.Name, expectedData)
    IN  /\ Len(contestantTokens) = Len(expectedTokens)
        /\ \A k \in 1..Len(expectedTokens) :
                TokensMatch(v, expectedTokens[k], contestantTokens[k])

TokenPolicies == {"token", "token-caseless", "token-numeric"}

\* C21: for the token, token-caseless and token-numeric policies
\* CalculateScore returns 1 if and only if the two streams have the same number
\* of tokens and every pair of corresponding tokens matches under the policy;
\* when one stream ends while the other still has a token the score is 0.
C21_ScoreOneIffStreamsMatch ==
    pc = "calculated" /\ validatorSettings.Name \in TokenPolicies =>
        (calculated[1].score = Finite(RatOne)
            <=> StreamsMatch(validatorSettings, contestantOutput, expectedOutput))

\* The tokens scanNumericTokens can hand to tokenNumeric, of at most two runes.
NumericTokens == SeqsUpTo({"1", "2", "-", "."}, 2) \ {<<>>}

\* The value of a token that parses.
NumberOf(t) == ParseFloat(t).value.value

\* A pair matches under token-numeric with the tolerance relative to the
\* expected token e.
NumericMatch(e, c, tolerance) ==
    IF ParseFloat(e).err = "nil" /\ ParseFloat(c).err = "nil"
    THEN LET difference == RatAbs(RatSub(NumberOf(e), NumberOf(c)))
         IN  RatLe(difference, RatMul(RatAbs(NumberOf(e)), tolerance))
    ELSE ParseFloat(e).err # "nil" /\ ParseFloat(c).err # "nil"

\* Grade has validated the only case of the problem.
CaseValidated ==
    /\ pc \in {"validate", "done"}
    /\ groupResults # <<>>
    /\ groupResults[1].Cases # <<>>
    /\ groupResults[1].Cases[1].Verdict \in {"AC", "PA", "WA"}

\* C22: under token-numeric a pair (expected token e, contestant token c)
\* matches iff both parse as numbers and |e - c| <= |e| * tolerance, or both
\* fail to parse; and in Grade the expected token is the one read from the
\* <case>.out of the problem: the case is AC iff the output of the run matches
\* the <case>.out of the problem with the tolerance relative to the latter.
C22_ToleranceRelativeToExpected ==
    CaseValidated /\ validatorSettings.Name = "token-numeric" =>
        /\ \A e \in NumericTokens, c \in NumericTokens, t \in Tolerances :
                tokenNumeric(e, c, t) = NumericMatch(e, c, t)
        /\ groupResults[1].Cases[1].Verdict = "AC"
                <=> LET expected == Tokens("token-numeric", caseFiles.expected.data)
                        contestant == Tokens("token-numeric", caseFiles.contestant.data)
                    IN  /\ Len(expected) = Len(contestant)
                        /\ \A k \in 1..Len(expected) :
                                NumericMatch(expected[k], contestant[k],
                                             validatorSettings.Tolerance)

ScorePolicies == {"literal", "custom"}

\* The real x clamped to [0, 1].
Clamp(x) == IF RatLt(x, RatZero) THEN RatZero ELSE IF RatLt(RatOne, x) THEN RatOne ELSE x

\* C23: under the literal and custom policies the score is the first token of
\* the contestant stream parsed as a real and clamped to [0,1], whatever the
\* expected stream; for every contestant stream the score lies in [0,1], and a
\* missing or unparsable token gives 0.
C23_LiteralScoreClamped ==
    pc = "calculated" /\ validatorSettings.Name \in ScorePolicies =>
        LET first == Scan(validatorSettings.Name, contestantOutput)
            parsed == ParseFloat(first.token)
            returned == calculated[1].score
        IN  /\ returned.class = "finite"
            /\ RatLe(RatZero, returned.value) /\ RatLe(returned.value, RatOne)
            /\ ~first.ok \/ parsed.err # "nil" => returned.value = RatZero
            /\ first.ok /\ parsed.err = "nil" /\ parsed.value.class = "finite" =>
                    returned.value = Clamp(parsed.value.value)
            /\ calculated[1] = CalculateScore(validatorSettings, contestantOutput, <<>>)

\* parseOutputOnlyFile has returned the map of a data URL that holds a ZIP file.
ZipParsed ==
    /\ pc \notin {"entry", "plan", "setup", "ret_setup", "ret_zip"}
    /\ run.Language = "cat"
    /\ source.dataurl /\ source.zip

\* The last two parts of the name of an entry: what follows its directories.
LastParts(name) == SubSeq(name, Len(name) - 1, Len(name))

\* Entry k of the ZIP file is the output of a case of the settings.
ExpectedEntry(k) ==
    /\ source.entries[k].name[Len(source.entries[k].name)] = ".out"
    /\ \E i \in 1..Len(settings) : \E j \in 1..Len(settings[i].Cases) :
            LastParts(source.entries[k].name) = <<CaseName(i, j), ".out">>

Oversized(k) == source.entries[k].size > OutputLimit

\* The map holds nothing of entry k.
Discarded(k) ==
    \A n \in DOMAIN outputOnlyFiles : outputOnlyFiles[n].contents # EntryContents(k)

\* C24 as stated: the map has only keys <case>.out of declared cases, every
\* entry that is not the output of a declared case is discarded, and every
\* expected entry above the output limit is stored empty and marked OLE.
C24_Original ==
    ZipParsed =>
        /\ \A n \in DOMAIN outputOnlyFiles :
                \E i \in 1..Len(settings) : \E j \in 1..Len(settings[i].Cases) :
                    n = <<CaseName(i, j), ".out">>
        /\ \A k \in 1..Len(source.entries) :
                /\ ~ExpectedEntry(k) => Discarded(k)
                /\ ExpectedEntry(k) /\ Oversized(k) =>
                        /\ LastParts(source.entries[k].name) \in DOMAIN outputOnlyFiles
                        /\ outputOnlyFiles[LastParts(source.entries[k].name)]
                                = [contents |-> "", ole |-> TRUE]

\* The entries that set the value of the key n: the expected entries of that
\* base name that are above the output limit or can be read.
Setting(n) ==
    {k \in 1..Len(source.entries) :
        /\ ExpectedEntry(k)
        /\ LastParts(source.entries[k].name) = n
        /\ Oversized(k) \/ source.entries[k].readable}

\* C24: the map has only keys <case>.out of declared cases; every entry that is
\* not the output of a declared case is discarded; a key is in the map iff an
\* entry sets it, and its value is that of the last entry that sets it: empty
\* and marked OLE if that entry is above the output limit, its contents if not.
C24_OutputOnlyMap ==
    ZipParsed =>
        /\ \A n \in DOMAIN outputOnlyFiles :
                \E i \in 1..Len(settings) : \E j \in 1..Len(settings[i].Cases) :
                    n = <<CaseName(i, j), ".out">>
        /\ \A k \in 1..Len(source.entries) : ~ExpectedEntry(k) => Discarded(k)
        /\ \A i \in 1..Len(settings) : \A j \in 1..Len(settings[i].Cases) :
                LET n == <<CaseName(i, j), ".out">>
                    last == CHOOSE k \in Setting(n) : \A l \in Setting(n) : l <= k
                IN  IF Setting(n) = {} THEN n \notin DOMAIN outputOnlyFiles
                    ELSE /\ n \in DOMAIN outputOnlyFiles
                         /\ outputOnlyFiles[n] =
                                IF Oversized(last) THEN [contents |-> "", ole |-> TRUE]
                                ELSE [contents |-> EntryContents(last), ole |-> FALSE]

\* An entry above the output limit is followed by a readable entry of the same
\* base name in a directory, and the map holds the contents of the latter.
C24_Witness ==
    /\ ZipParsed
    /\ Len(source.entries) = 2
    /\ ExpectedEntry(1) /\ Oversized(1)
    /\ source.entries[2].name = <<"d", "/">> \o source.entries[1].name
    /\ OutName(CaseName(1, 1)) \in DOMAIN outputOnlyFiles
    /\ outputOnlyFiles[OutName(CaseName(1, 1))] = [contents |-> EntryContents(2), ole |-> FALSE]

\* The name of the output of the case that is the k-th in declaration order.
OutNameOfOrdinal(k) ==
    LET positions == UNION {{<<i, j>> : j \in 1..Len(settings[i].Cases)} :
                                i \in 1..Len(settings)}
        p == CHOOSE q \in positions : Ordinal(q) = k
    IN  <<CaseName(p[1], p[2]), ".out">>

\* Grade is on an output-only submission, past its setup.
InOutputOnly ==
    /\ run.Language = "cat"
    /\ pc \in {"compile", "execute", "validate", "done"}

C26_CustomValidatorScore ==
    CaseValidated /\ validatorSettings.Name = "custom" =>
        LET case == groupResults[1].Cases[1]
        IN  IF caseFiles.validateMeta.Verdict # "OK"
            THEN /\ case.Score = RatZero
                 /\ case.Verdict = "WA"
                 /\ pc = "validate" /\ gi = 1 => ~correct
                 /\ groupResults[1].Score = RatZero
            ELSE case.Score = RunScore(CalculateScore(validatorSettings,
                                                      caseFiles.validatorOut.data, <<>>))


\* The place in declaration order of the case the loops of Grade are at.
CursorOrdinal == Ordinal(<<gi, cj>>)

\* Verdicts only the validate loop gives a case.
ValidatedVerdicts == {"AC", "PA", "WA"}

\* Every goroutine of the case has sent its result and the collection loop
\* has received it.
CaseDelivered ==
    /\ \A name \in DOMAIN senders : senders[name] = "sent"
    /\ metaChan = <<>>

\* All compiles finish before the first case runs.
CompilesBeforeRuns ==
    /\ sandboxRuns' # sandboxRuns =>
            pc # "compile" /\ Len(compiled) = Len(binaries)
    /\ compiled' # compiled => sandboxRuns = <<>> /\ ExecutedCases = <<>>

\* The runs of a case start only after every binary of the case before it
\* has delivered its result.
RunsDoNotOverlap ==
    sandboxRuns' # sandboxRuns =>
        /\ CaseDelivered
        /\ Len(ExecutedCases) >= Len(sandboxRuns)

\* Every case is executed or synthesised before the first case is validated.
ExecutedBeforeValidated ==
    (\E k \in 1..Len(ExecutedCases') :
        /\ ExecutedCases'[k].Verdict \in ValidatedVerdicts
        /\ k > Len(ExecutedCases) \/ ExecutedCases[k].Verdict \notin ValidatedVerdicts)
    => /\ pc = "validate"
       /\ caseResults = <<>>
       /\ Len(ExecutedCases) = Len(AllCases(settings))
       /\ sandboxRuns' = sandboxRuns

\* Cases are executed and validated in the declaration order of the settings.
DeclarationOrder ==
    /\ sandboxRuns' # sandboxRuns =>
            /\ sandboxRuns' = Append(sandboxRuns, <<gi, cj>>)
            /\ \A k \in 1..Len(sandboxRuns) :
                    Ordinal(sandboxRuns[k]) < CursorOrdinal
    /\ ExecutedCases' # ExecutedCases /\ pc' # "validate" =>
            /\ Len(ExecutedCases') = Len(ExecutedCases) + 1
            /\ SubSeq(ExecutedCases', 1, Len(ExecutedCases)) = ExecutedCases
            /\ CursorOrdinal = Len(ExecutedCases')
    /\ ExecutedCases' # ExecutedCases /\ pc' = "validate" =>
            /\ Len(ExecutedCases') = Len(ExecutedCases)
            /\ \A k \in 1..Len(ExecutedCases) :
                    /\ k # CursorOrdinal => ExecutedCases'[k] = ExecutedCases[k]
                    /\ k > CursorOrdinal =>
                            ExecutedCases[k].Verdict \notin ValidatedVerdicts

\* C27: Grade runs its phases in sequence and never overlaps cases: every
\* binary is compiled before the first case runs; the sandbox runs of a case
\* start only after every binary of the case before it has delivered its
\* result; every case is executed or synthesised before the first case is
\* validated; cases are executed and validated in the declaration order of
\* settings.cases.
C27_PhasesInSequence ==
    [][/\ CompilesBeforeRuns
       /\ RunsDoNotOverlap
       /\ ExecutedBeforeValidated
       /\ DeclarationOrder]_vars

\* Grade has returned after it ran two cases, each with more than one binary,
\* and validated them.
C27_Witness ==
    /\ pc = "done"
    /\ Len(sandboxRuns) = 2
    /\ Len(binaries) > 1
    /\ problem.Validator = "custom"
    /\ \A k \in 1..Len(ExecutedCases) : ExecutedCases[k].Verdict \in ValidatedVerdicts


\* The runes of the streams of this model.
StreamRunes == WordRunes \cup NumberRunes \cup UnicodeSpace \cup JavaSpace

\* The separators of the scanner of a validator: unicode whitespace and
\* U+001C..U+001F for scanTokens, any rune outside [0-9.-] for
\* scanNumericTokens.
SeparatorRunes(name) ==
    IF name = "token-numeric"
    THEN StreamRunes \ ({".", "-"} \cup {DecimalDigits[d] : d \in 1..10})
    ELSE UnicodeSpace \cup JavaSpace

\* data with the rune r after its first k runes.
InsertRune(data, k, r) == SubSeq(data, 1, k) \o <<r>> \o SubSeq(data, k + 1, Len(data))

\* The places of data where one more separator is a leading, a trailing or a
\* repeated separator.
SeparatorPlaces(name, data) ==
    {k \in 0..Len(data) :
        \/ k = 0
        \/ k = Len(data)
        \/ data[k] \in SeparatorRunes(name)
        \/ data[k + 1] \in SeparatorRunes(name)}

\* data with one more leading, trailing or repeated separator.
WithSeparator(name, data) ==
    {InsertRune(data, k, r) : k \in SeparatorPlaces(name, data), r \in SeparatorRunes(name)}

\* C28: the scanners never emit an empty token, and one more leading, trailing
\* or repeated separator rune (unicode whitespace or U+001C..U+001F for the
\* whitespace scanner, any rune outside [0-9.-] for the numeric scanner) in
\* either stream leaves the result of CalculateScore unchanged; a stream with
\* such a separator removed is a stream of this kind as well.
C28_SeparatorsDoNotMatter ==
    pc = "calculated" =>
        LET name == validatorSettings.Name
        IN  /\ \A data \in {contestantOutput, expectedOutput} :
                    \A k \in 1..Len(Tokens(name, data)) : Tokens(name, data)[k] # <<>>
            /\ \A data \in WithSeparator(name, contestantOutput) :
                    CalculateScore(validatorSettings, data, expectedOutput) = calculated[1]
            /\ \A data \in WithSeparator(name, expectedOutput) :
                    CalculateScore(validatorSettings, contestantOutput, data) = calculated[1]

\* CalculateScore has compared two streams whose tokens match and whose
\* separators differ: a separator of Java leads one, and the other has a
\* leading space and a trailing separator of Java.
C28_Witness ==
    /\ pc = "calculated"
    /\ validatorSettings.Name = "token"
    /\ contestantOutput = <<"U+001C", "a">>
    /\ expectedOutput = <<" ", "a", "U+001C">>
    /\ calculated[1].score = Finite(RatOne)


\* C29: the archive builder sets validator.tolerance to 1e-6 only when
\* validator.name is token-numeric and the loaded settings carry no tolerance;
\* a tolerance the loader supplied is unchanged in the built settings, and
\* settings with any other validator name are given no tolerance.
C29_DefaultTolerance ==
    pc = "built" =>
        built[1].Validator.Tolerance =
            IF loaded.Name = "token-numeric" /\ loaded.Tolerance = Unset
            THEN <<DefaultTolerance>>
            ELSE loaded.Tolerance

\* The cases of the built settings, group by group.
BuiltCases == AllCases(built[1].Cases)

\* The sum of the weights of the cases, in their order.
RECURSIVE SumFloats(_)
SumFloats(cases) ==
    IF cases = <<>> THEN Finite(RatZero)
    ELSE FloatAdd(cases[1].Weight, SumFloats(Tail(cases)))

\* Every case of rawCaseWeights is once in the built settings, in the group
\* named by the runes of its name before the first ".".
EveryCaseOnceInItsGroup ==
    /\ Len(BuiltCases) = Cardinality(DOMAIN rawCaseWeights)
    /\ {BuiltCases[k].Name : k \in 1..Len(BuiltCases)} = DOMAIN rawCaseWeights
    /\ \A g \in 1..Len(built[1].Cases) :
            \A c \in 1..Len(built[1].Cases[g].Cases) :
                LET name == built[1].Cases[g].Cases[c].Name
                    dots == {k \in 1..Len(name) : name[k] = "."}
                    groupName == built[1].Cases[g].Name
                IN  /\ \A k \in 1..Len(groupName) : groupName[k] # "."
                    /\ IF dots = {} THEN groupName = name
                       ELSE /\ Len(groupName) + 1 \in dots
                            /\ groupName = SubSeq(name, 1, Len(groupName))

\* Groups are in strictly ascending order of name, and so are the cases of
\* each group.
SortedByName ==
    /\ \A g \in 1..(Len(built[1].Cases) - 1) :
            NameLess(built[1].Cases[g].Name, built[1].Cases[g + 1].Name)
    /\ \A g \in 1..Len(built[1].Cases) :
            \A c \in 1..(Len(built[1].Cases[g].Cases) - 1) :
                NameLess(built[1].Cases[g].Cases[c].Name,
                         built[1].Cases[g].Cases[c + 1].Name)

\* The weight of each group is the sum of the weights of its cases.
GroupWeightsAreSums ==
    \A g \in 1..Len(built[1].Cases) :
        FloatEq(built[1].Cases[g].Weight, SumFloats(built[1].Cases[g].Cases))

GroupCorrect(i) ==
    \A j \in 1..Len(groupResults[i].Cases) :
        /\ groupResults[i].Cases[j].Meta.Verdict = "OK"
        /\ RatLt(RatZero, groupResults[i].Cases[j].Score)

\* The sum over the cases of group i of normalised weight x score.
RECURSIVE WeightedScore(_, _)
WeightedScore(i, n) ==
    IF n = 0 THEN RatZero
    ELSE RatAdd(WeightedScore(i, n - 1),
                RatMul(RatMul(settings[i].Cases[n].Weight, totalWeightFactor(settings)),
                       groupResults[i].Cases[n].Score))

\* C31: the contest_score of a group is max_score x (the sum over its cases of
\* normalised weight x score) when the group is correct and 0 otherwise; it
\* never exceeds the max_score of the group, it is the sum of the
\* contest_scores of the cases of a correct group, and the contest_score of
\* the run is the sum of the contest_scores of the groups.
C31_GroupContestScore ==
    pc = "done" =>
        /\ \A i \in 1..Len(groupResults) :
                LET g == groupResults[i]
                IN  /\ g.ContestScore =
                            IF GroupCorrect(i)
                            THEN RatMul(runResult.MaxScore, WeightedScore(i, Len(g.Cases)))
                            ELSE RatZero
                    /\ RatLe(g.ContestScore, g.MaxScore)
                    /\ GroupCorrect(i) => g.ContestScore = SumField(g.Cases, "ContestScore")
        /\ runResult.ContestScore = SumField(groupResults, "ContestScore")

\* C32: for every pair of verdicts that can reach it, verdicts outside the
\* verdict list and the empty verdict included, worseVerdict returns normally,
\* and what it returns is one of its two arguments.
C32_WorseVerdictTotal ==
    pc = "worse_done" =>
        /\ wres.ab # "panic"
        /\ wres.ab \in {wa, wb}

\* The verdicts of a case that failed in its execution.
FailureVerdicts == {"TLE", "MLE", "OLE", "RTE", "JE"}

\* C33: in a result returned after the validate phase no case has the
\* intermediate verdict OK: the verdict of each case is AC, PA, WA or a failure
\* verdict, and the run has verdict AC only if every case has verdict AC, also
\* when the contestant or expected output of a case cannot be opened.
C33_NoCaseLeftOK ==
    pc = "done" =>
        /\ \A p \in CasePos :
                /\ CaseAt(p).Verdict # "OK"
                /\ CaseAt(p).Verdict \in {"AC", "PA", "WA"} \cup FailureVerdicts
        /\ runResult.Verdict = "AC" => \A p \in CasePos : CaseAt(p).Verdict = "AC"

\* C34: in a result returned after the validate phase the score of the run is
\* the sum of the scores of its groups, and so lies in [0, 1], whatever the
\* settings: also when the total weight is not positive, when there are no
\* cases, and when every case is AC.
C34_RunScoreIsGroupSum ==
    pc = "done" =>
        /\ runResult.Score = SumField(groupResults, "Score")
        /\ RatLe(RatZero, runResult.Score)
        /\ RatLe(runResult.Score, RatOne)

\* ------------------------------------------- the languages of the binaries
\* The languages of the submissions, harnesses and validators here.
SandboxLanguages == {"cpp", "py"}

\* Grade on a problem of one case, for every language of the submission, of
\* the parent of an interactive problem and of a custom validator.
InitLanguage ==
    /\ pc = "compile"
    /\ settings \in UnitSettings(1)
    /\ runResult = NewRunResult("JE", Rat(1, 1))
    /\ gi = 1
    /\ cj = 1
    /\ caseResults = <<>>
    /\ groupResults = <<>>
    /\ correct = TRUE
    /\ score = RatZero
    /\ ctx = [PreserveFiles |-> FALSE]
    /\ run \in [Language : SandboxLanguages]
    /\ sandbox = [Supported |-> TRUE, Verdicts |-> {"OK", "RTE"}, WallTimes |-> {0}]
    /\ problem \in [Interactive : {i \in Interactives : i.Supported},
                     Validator : {"token", "custom"},
                     OverallWallTimeLimit : {MaxWallTime}]
    /\ binaries = PlannedBinaries(run.Language, problem.Interactive, problem.Validator)
    /\ regularBinaryCount = Len(RegularBinaries(run.Language, problem.Interactive))
    /\ bi = 1
    /\ runRoot = TRUE
    /\ err = "nil"
    /\ compiled = <<>>
    /\ sandboxRuns = <<>>
    /\ wa = "OK" /\ wb = "OK" /\ wc = "OK"
    /\ wres = <<>>
    /\ CaseIdle
    /\ InputIdle
    /\ ValidatorIdle
    /\ caseFiles = NoCaseFiles
    /\ OutputOnlyIdle
    /\ BuilderIdle
    /\ IngressIdle
    /\ languages \in [Parent : SandboxLanguages, Validator : SandboxLanguages]
    /\ compiledAs = <<>>
    /\ ranAs = <<>>

SpecLanguage == InitLanguage /\ [][GradeNext]_vars

\* C35: every binary sandbox.Run was called for was compiled, and sandbox.Run
\* got the language sandbox.Compile got for it: the harness of an interactive
\* problem and the custom validator run under the language they were compiled
\* with, the upgrade of cpp to cpp11 included.
C35_RunsAsCompiled ==
    \A name \in DOMAIN ranAs :
        /\ name \in DOMAIN compiledAs
        /\ ranAs[name] = compiledAs[name]

\* Persist returned an error, and nothing ran after it.
PersistFailed == pc = "persist_failed" /\ entered # <<>>

\* C36: when Persist returns an error, <archive>.tmp does not exist, the
\* files <archive>.sha1 and <archive>.len and the archive are what they were
\* when Persist was called, and the stored hash, the size and the commit of
\* the input are what they were.
C36_FailedPersistLeavesNothing ==
    PersistFailed =>
        /\ ~files.tmp.exists
        /\ files.sha1 = entered[1].files.sha1
        /\ files.len = entered[1].files.len
        /\ files.archive = entered[1].files.archive
        /\ input = entered[1].input

\* ------------------------------------------------- the handler of /run/new/
\* The number of requests for the submission.
MaxRequests == 2

\* What a request can be: well formed, not a POST, a path that does not have
\* three parts, a run id that is no number.
RequestShapes == {"ok", "method", "path", "id"}

\* The ways injectRuns fails: readSource, InputManager.Add, runs.AddRun.
InjectFailures == {"source", "input", "queue"}

\* A request the handler has not started on; status 0 is no answer yet.
NewRequest == [pc |-> "route", status |-> 0, created |-> FALSE]

\* The handler answers request r with status code.
Answer(r, code) == [requests EXCEPT ![r].pc = "done", ![r].status = code]

\* The requests for one submission whose file does not exist yet.
InitIngress ==
    /\ pc = "serve"
    /\ requests = [r \in 1..MaxRequests |-> NewRequest]
    /\ submission = [exists |-> FALSE, data |-> <<>>]
    /\ runs = <<>>
    /\ GradeLoopsIdle
    /\ GradeParametersIdle
    /\ CaseIdle
    /\ InputIdle
    /\ ValidatorIdle
    /\ caseFiles = NoCaseFiles
    /\ OutputOnlyIdle
    /\ BuilderIdle
    /\ LanguageIdle

\* What the handler of /run/new/ leaves alone.
graderVars == <<pc, gradeVars, caseVars, inputVars, validatorVars, caseFiles,
                outputOnlyVars, builderVars, languageVars>>

\* The handler checks the method, the path and the run id of request r.
Route(r, shape) ==
    /\ requests[r].pc = "route"
    /\ requests' = IF shape = "method" THEN Answer(r, 405)
                   ELSE IF shape = "path" THEN Answer(r, 404)
                   ELSE IF shape = "id" THEN Answer(r, 400)
                   ELSE [requests EXCEPT ![r].pc = "lookup"]
    /\ UNCHANGED <<submission, runs, graderVars>>

\* newRunInfoFromID reads the run of request r from the database, or fails.
NewRunInfoFromID(r, ok) ==
    /\ requests[r].pc = "lookup"
    /\ requests' = IF ok THEN [requests EXCEPT ![r].pc = "mkdir"] ELSE Answer(r, 500)
    /\ UNCHANGED <<submission, runs, graderVars>>

\* os.MkdirAll of the directory of the submission.
MkdirAll(r, ok) ==
    /\ requests[r].pc = "mkdir"
    /\ requests' = IF ok THEN [requests EXCEPT ![r].pc = "open"] ELSE Answer(r, 500)
    /\ UNCHANGED <<submission, runs, graderVars>>

\* os.OpenFile with O_CREATE|O_EXCL: the file exists and the answer is 409, or
\* the file is created empty, or the call fails otherwise and the answer is 500.
OpenFile(r, ok) ==
    /\ requests[r].pc = "open"
    /\ IF submission.exists
       THEN /\ requests' = Answer(r, 409)
            /\ UNCHANGED submission
       ELSE IF ok
       THEN /\ requests' = [requests EXCEPT ![r].pc = "copy", ![r].created = TRUE]
            /\ submission' = [exists |-> TRUE, data |-> <<>>]
       ELSE /\ requests' = Answer(r, 500)
            /\ UNCHANGED submission
    /\ UNCHANGED <<runs, graderVars>>

\* io.Copy(f, r.Body), whose error is dropped: the body of request r is in the
\* file, or it is not.
Copy(r, copied) ==
    /\ requests[r].pc = "copy"
    /\ submission' = IF copied THEN [submission EXCEPT !.data = <<r>>] ELSE submission
    /\ requests' = [requests EXCEPT ![r].pc = "inject"]
    /\ UNCHANGED <<runs, graderVars>>

\* injectRuns on the run of request r: the run is put in the queue and the
\* answer is 200, or a step fails and the answer is 500.
InjectRuns(r, outcome) ==
    /\ requests[r].pc = "inject"
    /\ IF outcome = "ok"
       THEN /\ runs' = Append(runs, r)
            /\ requests' = Answer(r, 200)
       ELSE /\ requests' = Answer(r, 500)
            /\ UNCHANGED runs
    /\ UNCHANGED <<submission, graderVars>>

IngressNext ==
    \/ \E r \in 1..MaxRequests, shape \in RequestShapes : Route(r, shape)
    \/ \E r \in 1..MaxRequests, ok \in BOOLEAN : NewRunInfoFromID(r, ok)
    \/ \E r \in 1..MaxRequests, ok \in BOOLEAN : MkdirAll(r, ok)
    \/ \E r \in 1..MaxRequests, ok \in BOOLEAN : OpenFile(r, ok)
    \/ \E r \in 1..MaxRequests, copied \in BOOLEAN : Copy(r, copied)
    \/ \E r \in 1..MaxRequests, outcome \in {"ok"} \cup InjectFailures :
            InjectRuns(r, outcome)

SpecIngress == InitIngress /\ [][IngressNext]_vars

\* The requests that created the file of the submission.
Creators == {r \in DOMAIN requests : requests[r].created}

\* The requests whose run is in the queue.
Enqueued == {runs[k] : k \in 1..Len(runs)}

\* The requests the handler answered.
Answered == {r \in DOMAIN requests : requests[r].pc = "done"}

\* C37: of the requests for one submission at most one creates the file and
\* puts the run in the queue, and the queue holds the run once at most; a
\* request answered 409 created nothing and queued nothing; and after any
\* answer other than 200 the request has neither stored the submission nor
\* queued the run.
C37_IngressAtMostOnce ==
    pc = "serve" =>
        /\ Cardinality(Creators) <= 1
        /\ Len(runs) <= 1
        /\ Enqueued \subseteq Creators
        /\ \A r \in Answered :
              /\ requests[r].status = 200 => r \in Creators /\ r \in Enqueued
              /\ requests[r].status # 200 => r \notin Creators /\ r \notin Enqueued

\* ------------------------------------ CalculateScore and an unknown validator
\* Names no validator has.
UnknownValidators == {"", "token-exact"}

\* The expected outputs an unknown validator is called with.
UnknownReferences == {<<>>, <<" ">>, <<"a">>, <<"U+001C", "a", " ">>}

\* A call of CalculateScore with the name of no validator.
InitUnknown ==
    /\ pc = "calculate"
    /\ validatorSettings \in [Name : UnknownValidators, Tolerance : {RatZero}]
    /\ contestantOutput \in SeqsUpTo(WordRunes, MaxRunes)
    /\ expectedOutput \in UnknownReferences
    /\ calculated = <<>>
    /\ caseFiles = NoCaseFiles
    /\ OutputOnlyIdle
    /\ GradeLoopsIdle
    /\ GradeParametersIdle
    /\ CaseIdle
    /\ InputIdle
    /\ BuilderIdle
    /\ LanguageIdle
    /\ IngressIdle

SpecUnknown == InitUnknown /\ [][Calculate]_vars

\* C38: CalculateScore with a name other than token, token-caseless,
\* token-numeric, literal and custom returns the score 0 and the error
\* 'Unknown validator', whatever the two streams hold.
C38_UnknownValidatorIsAnError ==
    pc = "calculated"
    /\ validatorSettings.Name \notin TokenValidators \cup {"literal", "custom"}
    => /\ calculated[1].score = Finite(RatZero)
       /\ calculated[1].err = "Unknown validator"

====
